---- MODULE Spec2Model ----
(***************************************************************************)
(* A model of the HCA JSON -> MAGE-TAB mapping engine (hca2mtab.py and     *)
(* utils.py): field-path resolution with migration fallback, row building, *)
(* protocol aggregation, factor derivation, empty-column removal and       *)
(* Protocol REF expansion.                                                 *)
(*                                                                         *)
(* Strings that the program splits on or joins with commas are modelled in *)
(* their split form: a cell is the non-empty sequence of its comma-free    *)
(* parts, so 'A,B' is <<"A","B">>, 'A' is <<"A">> and the empty string ''  *)
(* is <<"">> (Python: ''.split(',') == ['']).                              *)
(***************************************************************************)
EXTENDS Integers, Sequences, FiniteSets, TLC

VARIABLES
    unit,                 \* which part of the program this behaviour exercises
    pc,                   \* position in convert_hca_json_to_magetab / in the unit
    sdrf_config,          \* the sample-level mapping configuration in use
    bundles_seen,         \* the bundles of the experiment processed so far, in order
    technologies_found,
    technology2sdrf_column_headers,
    technology2rows,
    technology2indexes_of_empty_columns,
    technology2protocol_type2protocols,
    technology2protocol_type2max_protocol_num_per_sample,
    characteristic_values,
    technology2factors,
    technology2factor2characteristic_colnum,
    sdrf_written,         \* per technology: what was handed to the csv writer
    error,                \* the exception that ended the run, or "none"
    call,                 \* the arguments of the function under test (unit runs)
    ret,                  \* its result
    hca_technology_bound, \* the local hca_technology has been assigned
    project_json,         \* the project document the experiment table reads
    idf_written,          \* per technology: the lines of its experiment table
    imported_experiments,
    mode,                 \* 'test' or 'prod'
    new_only,
    sender,               \* sender and email_recipients were given
    search_results,       \* the pages that the HCA search returns
    data_dir,             \* the projects with an idf file in data_dir
    already_imported_project_uuids,
    hca_json_cache,       \* project uuid -> its bundles retrieved
    worklist,             \* the keys of project_uuid2gxa_accession, in order
    project_idx,          \* position of the loop of line 58 in the worklist
    emails                \* the calls of utils.email_report

\* the state of one experiment (hca2mtab.py lines 73-98 and what is written)
experiment_vars ==
    <<sdrf_config, bundles_seen, technologies_found,
      technology2sdrf_column_headers, technology2rows,
      technology2indexes_of_empty_columns, technology2protocol_type2protocols,
      technology2protocol_type2max_protocol_num_per_sample,
      characteristic_values, technology2factors,
      technology2factor2characteristic_colnum, sdrf_written, error,
      project_json, idf_written>>

\* the arguments of a run and what it retrieved
input_vars ==
    <<mode, new_only, sender, search_results, data_dir,
      already_imported_project_uuids, hca_json_cache, worklist>>

\* the state of the loop over the worklist
run_vars == <<hca_technology_bound, imported_experiments, project_idx, emails>>

vars == <<unit, pc, call, ret, experiment_vars, input_vars, run_vars>>

(***************************************************************************)
(* Bounds of the model.                                                    *)
(***************************************************************************)
MaxBundles == 2

(***************************************************************************)
(* Configuration tokens (hca2mtab.yml: 'notfound', 'curate') and Python    *)
(* values.                                                                 *)
(***************************************************************************)
NOTFOUND == "NOTFOUND"
CURATE == "CURATE"
None == "None"
EMPTY == <<"">>
ProtocolREF == "Protocol REF"

\* A string without commas, as a cell.
Str(s) == <<s>>

\* ','.join(parts): the empty list joins to the empty string.
Join(parts) == IF parts = <<>> THEN EMPTY ELSE parts

\* s.split(','): a cell is kept in its split form.
Split(cell) == cell

Range(s) == {s[i] : i \in DOMAIN s}

\* list.insert(i, x) with 0-based i <= len
Insert(s, i, x) == SubSeq(s, 1, i) \o <<x>> \o SubSeq(s, i + 1, Len(s))

\* s[i] = x with 0-based i < len
SetAt(s, i, x) == [s EXCEPT ![i + 1] = x]

\* list.pop(i) with 0-based i < len
Pop(s, i) == SubSeq(s, 1, i) \o SubSeq(s, i + 2, Len(s))

\* sorted(set of integers)
RECURSIVE Sorted(_)
Sorted(S) ==
    IF S = {} THEN <<>>
    ELSE LET m == CHOOSE x \in S : \A y \in S : x <= y
         IN  <<m>> \o Sorted(S \ {m})

\* OrderedDict lookups: a dict is a sequence of [key, val] in insertion order.
Keys(d) == [i \in DOMAIN d |-> d[i].key]
HasKey(d, k) == \E i \in DOMAIN d : d[i].key = k
Get(d, k) == d[CHOOSE i \in DOMAIN d : d[i].key = k].val
Put(d, k, v) ==
    IF HasKey(d, k)
    THEN [i \in DOMAIN d |-> IF d[i].key = k THEN [key |-> k, val |-> v] ELSE d[i]]
    ELSE Append(d, [key |-> k, val |-> v])

(***************************************************************************)
(* With(e, F) is F(e) with e evaluated once, before F uses it (LET names   *)
(* and operator arguments are evaluated at each use).                      *)
(***************************************************************************)
With(e, F(_)) == CHOOSE r \in {F(v) : v \in {e}} : TRUE

(***************************************************************************)
(* utils.remove_empty_columns: pop the listed indexes, in ascending order, *)
(* each shifted by the number already popped.  A pop past the end of the   *)
(* list raises IndexError.                                                 *)
(***************************************************************************)
RECURSIVE remove_empty_columns_loop(_, _, _, _)
remove_empty_columns_loop(row0, idxs, k, position_shift) ==
    With(row0, LAMBDA row :
    IF k > Len(idxs) THEN [row |-> row, err |-> "none"]
    ELSE IF idxs[k] - position_shift >= Len(row)
         THEN [row |-> row, err |-> "IndexError"]
         ELSE remove_empty_columns_loop(Pop(row, idxs[k] - position_shift),
                                        idxs, k + 1, position_shift + 1))

remove_empty_columns(row, indexes_of_empty_columns) ==
    With(Sorted(indexes_of_empty_columns), LAMBDA idxs :
         remove_empty_columns_loop(row, idxs, 1, 0))

(***************************************************************************)
(* utils.expand_protocol_columns.  row = None (has_row FALSE) expands the  *)
(* header list in place; otherwise the row is expanded against the         *)
(* (unexpanded) headers.  The state of the loop is the row, the header     *)
(* list, col_idx, protocol_type_idx and the values left to distribute.     *)
(***************************************************************************)
\* `if row:` is false for None and for an empty list
Truthy(has_row, row) == has_row /\ row # <<>>

\* the while loop adding the new header at the end of the header list
expand_while_step_appending(has_row, st) ==
    IF Truthy(has_row, st.row)
    THEN IF Len(st.values) > 0
         THEN [st EXCEPT !.row = Insert(st.row, st.col_idx, Str(st.values[1])),
                         !.values = Tail(st.values),
                         !.col_idx = st.col_idx + 1]
         ELSE [st EXCEPT !.col_idx = st.col_idx + 1]
    ELSE [st EXCEPT !.headers = Append(st.headers, ProtocolREF),
                    !.col_idx = st.col_idx + 1]

\* one pass of the while loop of lines 434-445
expand_while_step(has_row, st) ==
    IF Truthy(has_row, st.row)
    THEN IF Len(st.values) > 0
         THEN [st EXCEPT !.row = Insert(st.row, st.col_idx, Str(st.values[1])),
                         !.values = Tail(st.values),
                         !.col_idx = st.col_idx + 1]
         ELSE [st EXCEPT !.col_idx = st.col_idx + 1]
    ELSE [st EXCEPT !.headers = Insert(st.headers, st.col_idx, ProtocolREF),
                    !.col_idx = st.col_idx + 1]

RECURSIVE expand_while(_, _, _)
expand_while(has_row, st0, num_new_columns_to_be_added) ==
    With(st0, LAMBDA st :
    IF num_new_columns_to_be_added <= 0 THEN st
    ELSE expand_while(has_row, expand_while_step(has_row, st),
                      num_new_columns_to_be_added - 1))

\* lines 447-455: the last column of the protocol type
expand_last_column(has_row, st) ==
    IF ~Truthy(has_row, st.row)
    THEN [st EXCEPT !.protocol_type_idx = st.protocol_type_idx + 1]
    ELSE IF st.col_idx >= Len(st.row)
         THEN [st EXCEPT !.err = "IndexError"]
         ELSE IF Len(st.values) > 0
              THEN [st EXCEPT !.row = SetAt(st.row, st.col_idx, Str(st.values[1])),
                              !.values = Tail(st.values),
                              !.protocol_type_idx = st.protocol_type_idx + 1]
              ELSE [st EXCEPT !.row = SetAt(st.row, st.col_idx, EMPTY),
                              !.protocol_type_idx = st.protocol_type_idx + 1]

\* the body of `if header == 'Protocol REF':`, lines 425-455
expand_protocol_ref(has_row, st, protocol_type2num_protocols) ==
    LET protocol_types == Keys(protocol_type2num_protocols)
    IN  IF st.protocol_type_idx >= Len(protocol_types)
        THEN [st EXCEPT !.err = "IndexError"]
        ELSE IF Truthy(has_row, st.row) /\ st.col_idx >= Len(st.row)
        THEN [st EXCEPT !.err = "IndexError"]
        ELSE With(expand_while(
                      has_row,
                      IF Truthy(has_row, st.row)
                      THEN [st EXCEPT !.values = Split(st.row[st.col_idx + 1])]
                      ELSE st,
                      Get(protocol_type2num_protocols,
                          protocol_types[st.protocol_type_idx + 1]) - 1),
                  LAMBDA st1 : expand_last_column(has_row, st1))

\* one pass of `for header in original_headers:`
expand_for_step(has_row, header, st, protocol_type2num_protocols) ==
    IF header = ProtocolREF
    THEN With(expand_protocol_ref(has_row, st, protocol_type2num_protocols),
              LAMBDA st1 : IF st1.err # "none" THEN st1
                           ELSE [st1 EXCEPT !.col_idx = st1.col_idx + 1])
    ELSE [st EXCEPT !.col_idx = st.col_idx + 1]

RECURSIVE expand_for(_, _, _, _, _)
expand_for(has_row, original_headers, i, st0, protocol_type2num_protocols) ==
    With(st0, LAMBDA st :
    IF i > Len(original_headers) \/ st.err # "none" THEN st
    ELSE expand_for(has_row, original_headers, i + 1,
                    expand_for_step(has_row, original_headers[i], st,
                                    protocol_type2num_protocols),
                    protocol_type2num_protocols))

expand_protocol_columns(has_row, row, headers, protocol_type2num_protocols) ==
    expand_for(has_row, headers, 1,
               [row |-> row, headers |-> headers, col_idx |-> 0,
                protocol_type_idx |-> 0, values |-> <<>>, err |-> "none"],
               protocol_type2num_protocols)

(***************************************************************************)
(* The mapping configuration (hca2mtab.yml is read by utils.get_config and *)
(* is an input of the program).  An item is (label, path): kind tells the  *)
(* branch of the row builder that the shape of the path selects.           *)
(***************************************************************************)
DissociationProtocol == "dissociation_protocol"
EnrichmentProtocol == "enrichment_protocol"
LibraryPreparationProtocol == "library_preparation_protocol"

\* config 'protocol_types'
config_protocol_types == <<DissociationProtocol, EnrichmentProtocol>>

Item(label, kind, arg) == [label |-> label, kind |-> kind, arg |-> arg]

SourceName == "Source Name"
CharOrganism == "Characteristics[organism]"
CharStage == "Characteristics[developmental stage]"
CharUnnamed == "Characteristics"
UnitTime == "Unit[time unit]"
CommentLibrary == "Comment[library construction]"
CommentRun == "Comment[RUN]"
CommentBiomaterial == "Comment[biomaterial name]"
FactorOrganism == "FactorValue[organism]"
FactorStage == "FactorValue[developmental stage]"
FactorSingleCell == "FactorValue[single cell identifier]"

\* every label takes its place: no positional rule is skipped
ConfigAllPlaced ==
    << Item(SourceName, "direct", "donor_organism"),
       Item(CharOrganism, "direct", "donor_organism"),
       Item(CharStage, "literal", CURATE),
       Item(ProtocolREF, "protocol_ref", DissociationProtocol),
       Item(ProtocolREF, "protocol_ref", EnrichmentProtocol),
       Item(CommentLibrary, "protocol_attr", LibraryPreparationProtocol),
       Item(CommentRun, "file", "file_core") >>

\* 'Unit[time unit]' may only follow 'Characteristics[age]', which this
\* configuration does not hold: the rule is skipped in every row
ConfigOneSkipped ==
    << Item(SourceName, "direct", "donor_organism"),
       Item(CharOrganism, "direct", "donor_organism"),
       Item(UnitTime, "direct", "donor_organism"),
       Item(CharStage, "literal", CURATE),
       Item(ProtocolREF, "protocol_ref", DissociationProtocol),
       Item(ProtocolREF, "protocol_ref", EnrichmentProtocol),
       Item(CommentLibrary, "protocol_attr", LibraryPreparationProtocol),
       Item(CommentRun, "file", "file_core") >>

\* a configuration with a column read from the cell suspension document
ConfigCellSuspension ==
    << Item(SourceName, "direct", "donor_organism"),
       Item(CharOrganism, "direct", "donor_organism"),
       Item(CharStage, "literal", CURATE),
       Item(CommentBiomaterial, "direct", "cell_suspension"),
       Item(ProtocolREF, "protocol_ref", DissociationProtocol),
       Item(ProtocolREF, "protocol_ref", EnrichmentProtocol),
       Item(CommentLibrary, "protocol_attr", LibraryPreparationProtocol),
       Item(CommentRun, "file", "file_core") >>

Configs == {ConfigAllPlaced, ConfigOneSkipped, ConfigCellSuspension}

\* a configuration with a characteristic that bears no name in brackets
ConfigUnnamedCharacteristic ==
    << Item(SourceName, "direct", "donor_organism"),
       Item(CharUnnamed, "direct", "donor_organism"),
       Item(CharStage, "literal", CURATE),
       Item(ProtocolREF, "protocol_ref", DissociationProtocol),
       Item(ProtocolREF, "protocol_ref", EnrichmentProtocol),
       Item(CommentLibrary, "protocol_attr", LibraryPreparationProtocol),
       Item(CommentRun, "file", "file_core") >>

\* the configurations of a run of the program
RunConfigs == {ConfigAllPlaced, ConfigUnnamedCharacteristic}

\* config 'sdrf_colkey_after_colvalues'
sdrf_colkey_after_colvalues == [c \in {UnitTime} |-> {"Characteristics[age]"}]

\* re.search("Characteristic", label), over the labels of the configurations
IsCharacteristic(label) == label \in {CharOrganism, CharStage, CharUnnamed}

\* re.sub("Characteristics", "FactorValue", label)
FactorLabel(label) ==
    CASE label = CharOrganism -> FactorOrganism
      [] label = CharUnnamed -> "FactorValue"
      [] label = CharStage -> FactorStage
      [] OTHER -> label

\* config 'technology_mtab2hca': technology -> regexes of its HCA synonyms
technology_mtab2hca ==
    << [key |-> "smart-seq2", val |-> <<"smart-seq2">>],
       [key |-> "10xv2", val |-> <<"10x.*">>],
       [key |-> "10xv3", val |-> <<"10x v3">>] >>

Technologies == Range(Keys(technology_mtab2hca))

\* re.compile(val).match(s), over the values of the model
RegexMatch(val, s) ==
    \/ val = "smart-seq2" /\ s = "smart-seq2"
    \/ val = "10x.*" /\ s \in {"10x v2", "10x v3"}
    \/ val = "10x v3" /\ s = "10x v3"

\* str.lower(), over the values of the model
Lower(s) ==
    CASE s = "Smart-seq2" -> "smart-seq2"
      [] s = "10x V3" -> "10x v3"
      [] OTHER -> s

\* re.compile('smart-.*$').match(technology)
SmartMatch(technology) == technology = "smart-seq2"

\* re.sub(r"(\_\w\d|\_\w\d\_\d+|\_\d)*\.f\w+\.gz", "", value)
RunOfFile(value) ==
    CASE value = "F1_R1.fastq.gz" -> "F1"
      [] value = "F2.fastq.gz" -> "F2"
      [] OTHER -> value

(***************************************************************************)
(* Resolved field values.  utils.get_hca_value returns the NOTFOUND token  *)
(* or the leaf; the row builder is given, for every document of a bundle,  *)
(* the result of each resolution it makes (any result can occur).  A found *)
(* value holds a string as <<s>> and a list of {'text': ..} entries as the *)
(* sequence of their texts.                                                *)
(***************************************************************************)
NotFoundValue == [found |-> FALSE, v |-> <<>>]
Found(v) == [found |-> TRUE, v |-> v]

\* str(value) of a resolved scalar
StrOf(value) == IF value.found THEN Str(value.v[1]) ELSE Str(NOTFOUND)

Donor(id, organism) == [id |-> Found(<<id>>), organism |-> organism]

DonorLists ==
    { << Donor("d1", Found(<<"human">>)) >>,
      << Donor("d1", NotFoundValue) >>,
      << Donor("d1", Found(<<"human">>)), Donor("d2", Found(<<"mouse">>)) >> }

CellSuspensionCounts == {1, 2}

\* the cell suspension documents of a bundle: the i-th is named ci
CellSuspension(i) == [id |-> Found(<<IF i = 1 THEN "c1" ELSE "c2">>)]
cell_suspension_json_list(bundle) ==
    [i \in 1 .. bundle.cell_suspension |-> CellSuspension(i)]

FileLists ==
    { << Found(<<"F1_R1.fastq.gz">>) >>,
      << Found(<<"F1_R1.fastq.gz">>), Found(<<"F2.fastq.gz">>) >> }

\* library_construction_approach of the library preparation documents
LibraryLists ==
    { << >>, << Found(<<"Smart-seq2">>) >>, << Found(<<"10x v2">>) >>,
      << Found(<<"Drop-seq">>) >> }

\* a protocol document: the resolved name, description and type
Protocol(name, description) ==
    [name |-> name, description |-> description, type |-> Found(<<"dissociation">>)]

PA == Protocol(Found(<<"A">>), Found(<<"dA">>))
PB == Protocol(Found(<<"B">>), NotFoundValue)
PC == Protocol(Found(<<"C">>), Found(<<"dC">>))
PD == Protocol(Found(<<"D">>), Found(<<"dD">>))
PNoName == Protocol(NotFoundValue, Found(<<"dN">>))

DissociationLists ==
    { << >>, <<PA>>, <<PA, PB, PC>>, <<PNoName, PB, PB>> }

EnrichmentLists == { << >>, <<PD>> }

\* hca_json_for_bundle, as the resolutions the program makes on it
Bundles ==
    [ donor_organism : DonorLists,
      cell_suspension : CellSuspensionCounts,
      sequence_file : FileLists,
      library : LibraryLists,
      dissociation : DissociationLists,
      enrichment : EnrichmentLists ]

ProtocolDocs(bundle, protocol_key) ==
    CASE protocol_key = DissociationProtocol -> bundle.dissociation
      [] protocol_key = EnrichmentProtocol -> bundle.enrichment
      [] OTHER -> << >>

(***************************************************************************)
(* hca2mtab.py lines 108-118: the protocols of one bundle, per protocol    *)
(* type an OrderedSet of (name, description, type); a document whose name  *)
(* is NOTFOUND is left out.                                                *)
(***************************************************************************)
\* OrderedSet.add
OrderedSetAdd(s, x) == IF x \in Range(s) THEN s ELSE Append(s, x)

\* list concatenation in place of the union: what was already stored is stored
\* again
ListExtend(s0, t) == s0 \o t

\* OrderedSet |= OrderedSet
RECURSIVE OrderedSetUnion(_, _)
OrderedSetUnion(s0, t) ==
    With(s0, LAMBDA s :
    IF t = <<>> THEN s ELSE OrderedSetUnion(OrderedSetAdd(s, Head(t)), Tail(t)))

ProtocolTuple(doc) == <<StrOf(doc.name), StrOf(doc.description), StrOf(doc.type)>>

RECURSIVE collect_protocols_of_type(_, _)
collect_protocols_of_type(docs, acc0) ==
    With(acc0, LAMBDA acc :
    IF docs = <<>> THEN acc
    ELSE collect_protocols_of_type(
             Tail(docs),
             IF StrOf(Head(docs).name) # Str(NOTFOUND)
             THEN OrderedSetAdd(acc, ProtocolTuple(Head(docs)))
             ELSE acc))

protocol_type2protocols_in_bundle(bundle) ==
    [i \in DOMAIN config_protocol_types |->
        [key |-> config_protocol_types[i],
         val |-> collect_protocols_of_type(
                     ProtocolDocs(bundle, config_protocol_types[i]), <<>>)]]

(***************************************************************************)
(* utils.store_characteristic_value and utils.add_to_row.  The builder     *)
(* state rb holds the lists the call mutates: sdrf_column_headers, the     *)
(* current row, indexes_of_non_empty_sdrf_columns and characteristic_values*)
(***************************************************************************)
store_characteristic_value(characteristic, value, cv) ==
    IF ~HasKey(cv, characteristic)
    THEN Put(cv, characteristic, {value})
    ELSE Put(cv, characteristic, Get(cv, characteristic) \cup {value})

\* add_to_row leaving the cell out, instead of writing '', when the value is
\* NOTFOUND
add_to_row_without_notfound_cell(rb, sdrf_column_header, value0) ==
    With(value0, LAMBDA value :
    LET headers == Append(rb.headers, sdrf_column_header)
        cv == IF IsCharacteristic(sdrf_column_header)
                 /\ value \notin {Str(CURATE), Str(NOTFOUND)}
              THEN store_characteristic_value(sdrf_column_header, value, rb.cv)
              ELSE rb.cv
        idx == IF value \notin {Str(NOTFOUND), EMPTY}
               THEN rb.idx \cup {Len(headers) - 1} ELSE rb.idx
    IN  [rb EXCEPT !.headers = headers, !.cv = cv, !.idx = idx,
                   !.row = IF value = Str(NOTFOUND) THEN rb.row
                           ELSE Append(rb.row, value)])

\* add_to_row keeping only NOTFOUND, and not the CURATE marker, out of the
\* tracker
add_to_row_tracking_curate(rb, sdrf_column_header, value0) ==
    With(value0, LAMBDA value :
    LET headers == Append(rb.headers, sdrf_column_header)
        cv == IF IsCharacteristic(sdrf_column_header) /\ value # Str(NOTFOUND)
              THEN store_characteristic_value(sdrf_column_header, value, rb.cv)
              ELSE rb.cv
        out == IF value = Str(NOTFOUND) THEN EMPTY ELSE value
        idx == IF out # EMPTY THEN rb.idx \cup {Len(headers) - 1} ELSE rb.idx
    IN  [rb EXCEPT !.headers = headers, !.cv = cv, !.idx = idx,
                   !.row = Append(rb.row, out)])

add_to_row(rb, sdrf_column_header, value0) ==
    With(value0, LAMBDA value :
    LET headers == Append(rb.headers, sdrf_column_header)
        cv == IF IsCharacteristic(sdrf_column_header)
                 /\ value \notin {Str(CURATE), Str(NOTFOUND)}
              THEN store_characteristic_value(sdrf_column_header, value, rb.cv)
              ELSE rb.cv
        out == IF value = Str(NOTFOUND) THEN EMPTY ELSE value
        idx == IF out # EMPTY THEN rb.idx \cup {Len(headers) - 1} ELSE rb.idx
    IN  [rb EXCEPT !.headers = headers, !.cv = cv, !.idx = idx,
                   !.row = Append(rb.row, out)])

(***************************************************************************)
(* utils.position_valid_for_sdrf_column (the configurations of the model   *)
(* never start with a constrained label, so sdrf_column_headers[-1] exists)*)
(***************************************************************************)
position_valid_for_sdrf_column(col_name, sdrf_column_headers) ==
    \/ col_name \notin DOMAIN sdrf_colkey_after_colvalues
    \/ /\ sdrf_column_headers # <<>>
       /\ sdrf_column_headers[Len(sdrf_column_headers)]
              \in sdrf_colkey_after_colvalues[col_name]

(***************************************************************************)
(* utils.get_gxa_technology: the inner break leaves only the loop over the *)
(* synonyms of one key; the loop over the keys runs to its end.            *)
(***************************************************************************)
RECURSIVE get_gxa_technology_loop(_, _, _)
get_gxa_technology_loop(hca_technology, k, gxa_technology) ==
    IF k > Len(technology_mtab2hca) THEN gxa_technology
    ELSE get_gxa_technology_loop(
             hca_technology, k + 1,
             IF \E j \in DOMAIN technology_mtab2hca[k].val :
                    RegexMatch(technology_mtab2hca[k].val[j], hca_technology)
             THEN technology_mtab2hca[k].key
             ELSE gxa_technology)

get_gxa_technology(hca_technology) ==
    get_gxa_technology_loop(hca_technology, 1, None)

(***************************************************************************)
(* hca2mtab.py lines 154-232: one line item of sdrf_config applied to the  *)
(* row being built for (donor_json, datafile_json) of a bundle.            *)
(***************************************************************************)
\* lines 185-195: the protocol-attribute scan; for 'Comment[library
\* construction]' each found value sets the technology of the bundle
scan_protocol_attribute_step(magetab_label, json_dict, sc) ==
    IF ~json_dict.found THEN sc
    ELSE IF magetab_label = CommentLibrary
         THEN With(get_gxa_technology(Lower(json_dict.v[1])),
                   LAMBDA technology :
                       [technology |-> technology, hca_technology_bound |-> TRUE,
                        values |-> sc.values \cup {technology}])
         ELSE [sc EXCEPT !.values = @ \cup {json_dict.v[1]}]

RECURSIVE scan_protocol_attribute(_, _, _)
scan_protocol_attribute(magetab_label, docs, sc0) ==
    With(sc0, LAMBDA sc :
    IF docs = <<>> THEN sc
    ELSE scan_protocol_attribute(
             magetab_label, Tail(docs),
             scan_protocol_attribute_step(magetab_label, Head(docs), sc)))

\* ', '.join(values) of a set of at most one string (the bundles of the model
\* hold at most one library preparation document)
CommaSpaceJoin(values) ==
    IF values = {} THEN EMPTY ELSE Str(CHOOSE v \in values : TRUE)

MultiValueLabels ==
    {"Characteristics[organism]", "Characteristics[disease]",
     "Characteristics[cell subtype]", "Characteristics[ethnic group]",
     "Characteristics[strain]"}

\* the field of a donor or cell suspension document that a direct path of the
\* model names
DocumentField(magetab_label, json_dict) ==
    CASE magetab_label = SourceName -> json_dict.id
      [] magetab_label \in {CharOrganism, CharUnnamed} -> json_dict.organism
      [] magetab_label = CommentBiomaterial -> json_dict.id
      [] OTHER -> NotFoundValue

apply_line_item(line_item, bundle, donor_json, cell_suspension_json, datafile_json, in_bundle, rb) ==
    LET magetab_label == line_item.label
    IN  IF line_item.kind = "literal"
        THEN add_to_row(rb, magetab_label, Str(line_item.arg))
        ELSE IF ~position_valid_for_sdrf_column(magetab_label, rb.headers)
        THEN rb
        ELSE IF magetab_label = ProtocolREF
        THEN add_to_row(rb, magetab_label,
                 Join([i \in DOMAIN Get(in_bundle, line_item.arg) |->
                          Get(in_bundle, line_item.arg)[i][1][1]]))
        ELSE IF line_item.kind = "protocol_attr"
        THEN With(scan_protocol_attribute(
                      magetab_label, bundle.library,
                      [technology |-> rb.technology,
                       hca_technology_bound |-> rb.hca_technology_bound,
                       values |-> {}]),
                  LAMBDA sc :
                      add_to_row([rb EXCEPT !.technology = sc.technology,
                                            !.hca_technology_bound =
                                                sc.hca_technology_bound],
                                 magetab_label, CommaSpaceJoin(sc.values)))
        ELSE IF magetab_label = CommentRun
        THEN add_to_row(rb, magetab_label,
                 Str(RunOfFile(StrOf(datafile_json)[1])))
        ELSE LET json_dict == IF line_item.arg = "donor_organism"
                              THEN donor_json ELSE cell_suspension_json
                 value == DocumentField(magetab_label, json_dict)
             IN  IF magetab_label \in MultiValueLabels /\ value.found
                 THEN add_to_row(rb, magetab_label, Join(value.v))
                 ELSE add_to_row(rb, magetab_label, StrOf(value))

RECURSIVE build_row(_, _, _, _, _, _, _, _)
build_row(config, k, bundle, donor_json, cell_suspension_json, datafile_json, in_bundle, rb0) ==
    With(rb0, LAMBDA rb :
    IF k > Len(config) THEN rb
    ELSE build_row(config, k + 1, bundle, donor_json, cell_suspension_json,
                   datafile_json, in_bundle,
                   apply_line_item(config[k], bundle, donor_json,
                                   cell_suspension_json, datafile_json,
                                   in_bundle, rb)))

(***************************************************************************)
(* hca2mtab.py lines 233-264: what follows the building of one row.  ex    *)
(* holds the per-experiment structures of lines 73-95 and, for the bundle  *)
(* in hand, technology and indexes_of_non_empty_sdrf_columns.              *)
(***************************************************************************)
\* f[k] = v on a dict keyed by technology
Assign(f, k, v) == [x \in DOMAIN f \cup {k} |-> IF x = k THEN v ELSE f[x]]

\* the merge with the maximum taken from the size of the merged set
merge_protocol_type_counting_union(ex, technology, protocol_type, protocols) ==
    LET t2max == ex.technology2protocol_type2max_protocol_num_per_sample
        t2p == ex.technology2protocol_type2protocols
    IN  IF Len(protocols) > 0
        THEN LET p0 == IF ~HasKey(t2p[technology], protocol_type)
                       THEN Put(t2p[technology], protocol_type, <<>>)
                       ELSE t2p[technology]
                 p1 == Put(p0, protocol_type,
                           OrderedSetUnion(Get(p0, protocol_type), protocols))
                 m0 == IF technology \notin DOMAIN t2max THEN <<>>
                       ELSE t2max[technology]
             IN  [ex EXCEPT
                    !.technology2protocol_type2max_protocol_num_per_sample =
                        Assign(t2max, technology,
                               Put(m0, protocol_type, Len(Get(p1, protocol_type)))),
                    !.technology2protocol_type2protocols = Assign(t2p, technology, p1)]
        ELSE ex

\* lines 248-260, for one protocol type
merge_protocol_type(ex, technology, protocol_type, protocols) ==
    LET num_protocols_in_bundle == Len(protocols)
        t2max == ex.technology2protocol_type2max_protocol_num_per_sample
        t2p == ex.technology2protocol_type2protocols
    IN  IF num_protocols_in_bundle > 0
        THEN LET max1 ==
                     IF technology \notin DOMAIN t2max
                     THEN Assign(t2max, technology,
                                 Put(<<>>, protocol_type, num_protocols_in_bundle))
                     ELSE IF ~HasKey(t2max[technology], protocol_type)
                     THEN Assign(t2max, technology,
                                 Put(t2max[technology], protocol_type,
                                     num_protocols_in_bundle))
                     ELSE Assign(t2max, technology,
                                 Put(t2max[technology], protocol_type,
                                     IF num_protocols_in_bundle
                                            > Get(t2max[technology], protocol_type)
                                     THEN num_protocols_in_bundle
                                     ELSE Get(t2max[technology], protocol_type)))
                 p0 == IF ~HasKey(t2p[technology], protocol_type)
                       THEN Put(t2p[technology], protocol_type, <<>>)
                       ELSE t2p[technology]
                 p1 == Put(p0, protocol_type,
                           OrderedSetUnion(Get(p0, protocol_type), protocols))
             IN  [ex EXCEPT
                    !.technology2protocol_type2max_protocol_num_per_sample = max1,
                    !.technology2protocol_type2protocols = Assign(t2p, technology, p1)]
        ELSE ex

RECURSIVE merge_protocols(_, _, _, _)
merge_protocols(ex0, technology, in_bundle, k) ==
    With(ex0, LAMBDA ex :
    IF k > Len(in_bundle) THEN ex
    ELSE merge_protocols(
             merge_protocol_type(ex, technology, in_bundle[k].key, in_bundle[k].val),
             technology, in_bundle, k + 1))

\* the row put in front of the rows of its technology instead of after them
append_row_in_front(ex, config, technology, rb) ==
    LET rows0 == IF technology \notin DOMAIN ex.technology2rows
                 THEN <<>> ELSE ex.technology2rows[technology]
    IN  IF technology \notin ex.technologies_found
        THEN [ex EXCEPT
                !.technology2rows = Assign(@, technology, <<rb.row>> \o rows0),
                !.technology2sdrf_column_headers = Assign(@, technology, rb.headers),
                !.technology2indexes_of_empty_columns =
                    Assign(@, technology, 0 .. (Len(config) - 1)),
                !.technology2protocol_type2protocols = Assign(@, technology, <<>>),
                !.technologies_found = @ \cup {technology}]
        ELSE [ex EXCEPT
                !.technology2rows = Assign(@, technology, <<rb.row>> \o rows0)]

\* lines 236-246
append_row(ex, config, technology, rb) ==
    LET rows0 == IF technology \notin DOMAIN ex.technology2rows
                 THEN <<>> ELSE ex.technology2rows[technology]
    IN  IF technology \notin ex.technologies_found
        THEN [ex EXCEPT
                !.technology2rows = Assign(@, technology, Append(rows0, rb.row)),
                !.technology2sdrf_column_headers = Assign(@, technology, rb.headers),
                !.technology2indexes_of_empty_columns =
                    Assign(@, technology, 0 .. (Len(config) - 1)),
                !.technology2protocol_type2protocols = Assign(@, technology, <<>>),
                !.technologies_found = @ \cup {technology}]
        ELSE [ex EXCEPT
                !.technology2rows = Assign(@, technology, Append(rows0, rb.row))]

\* lines 233-264; the error message of line 262 reads hca_technology, which
\* is unbound until a library construction value has been found
store_row(ex, config, in_bundle, rb) ==
    LET technology == rb.technology
        ex0 == [ex EXCEPT !.characteristic_values = rb.cv,
                          !.indexes_of_non_empty_sdrf_columns = rb.idx,
                          !.technology = technology,
                          !.hca_technology_bound = rb.hca_technology_bound]
    IN  IF technology # None
        THEN merge_protocols(append_row(ex0, config, technology, rb),
                             technology, in_bundle, 1)
        ELSE [ex0 EXCEPT !.error = IF rb.hca_technology_bound
                                   THEN "HCA2MagetabTranslationError"
                                   ELSE "NameError"]

(***************************************************************************)
(* hca2mtab.py lines 141-153 and 266-267: one row per donor and sequence   *)
(* file, donor by donor; then the columns found non-empty in the bundle    *)
(* leave the technology's set of empty columns.                            *)
(***************************************************************************)
\* lines 143-147
cell_suspension_of_donor(bundle, i) ==
    IF Len(cell_suspension_json_list(bundle)) > 1
    THEN cell_suspension_json_list(bundle)[i]
    ELSE cell_suspension_json_list(bundle)[1]

RECURSIVE process_rows(_, _, _, _, _, _)
process_rows(ex0, config, bundle, in_bundle, i, j) ==
    With(ex0, LAMBDA ex :
    IF ex.error # "none" \/ i > Len(bundle.donor_organism) THEN ex
    ELSE IF j > Len(bundle.sequence_file)
         THEN process_rows(ex, config, bundle, in_bundle, i + 1, 1)
         ELSE With(build_row(config, 1, bundle, bundle.donor_organism[i],
                             cell_suspension_of_donor(bundle, i),
                             bundle.sequence_file[j], in_bundle,
                             [headers |-> <<>>, row |-> <<>>,
                              idx |-> ex.indexes_of_non_empty_sdrf_columns,
                              cv |-> ex.characteristic_values,
                              technology |-> ex.technology,
                              hca_technology_bound |-> ex.hca_technology_bound]),
                   LAMBDA rb :
                       process_rows(store_row(ex, config, in_bundle, rb),
                                    config, bundle, in_bundle, i, j + 1)))

\* line 136 without the exemption of the single cell suspension
cardinality_mismatch_of_unequal(bundle) ==
    Len(cell_suspension_json_list(bundle)) # Len(bundle.donor_organism)

\* line 136
cardinality_mismatch(bundle) ==
    /\ Len(cell_suspension_json_list(bundle)) # Len(bundle.donor_organism)
    /\ Len(cell_suspension_json_list(bundle)) # 1

\* line 267
update_empty_columns(ex) ==
    [ex EXCEPT !.technology2indexes_of_empty_columns =
        Assign(@, ex.technology,
               @[ex.technology] \ ex.indexes_of_non_empty_sdrf_columns)]

\* lines 99-267: the body of the loop over the bundles
process_bundle(ex, config, bundle) ==
    LET ex0 == [ex EXCEPT !.technology = None,
                          !.indexes_of_non_empty_sdrf_columns = {}]
    IN  IF cardinality_mismatch(bundle)
        THEN [ex0 EXCEPT !.error = "HCA2MagetabTranslationError"]
        ELSE With(protocol_type2protocols_in_bundle(bundle), LAMBDA in_bundle :
             With(process_rows(ex0, config, bundle, in_bundle, 1, 1), LAMBDA ex1 :
                  IF ex1.error # "none" THEN ex1 ELSE update_empty_columns(ex1)))

(***************************************************************************)
(* hca2mtab.py lines 277-295: the factors of one technology.  fd holds the *)
(* technology's header list, its factors and factor -> column number.      *)
(***************************************************************************)
\* list.index(x), 0-based, of an element the list holds
IndexOf(s, x) == (CHOOSE i \in DOMAIN s : s[i] = x /\ \A j \in 1 .. (i - 1) : s[j] # x) - 1

\* lines 282-287 and 292-295: one factor is added
add_factor(fd, factor, characteristic) ==
    LET headers == Append(fd.headers, factor)
    IN  [headers |-> headers,
         factors |-> Append(fd.factors, factor),
         colnum |-> Put(fd.colnum, factor, IndexOf(headers, characteristic))]

RECURSIVE derive_characteristic_factors(_, _, _)
derive_characteristic_factors(cv, k, fd0) ==
    With(fd0, LAMBDA fd :
    IF k > Len(cv) THEN fd
    ELSE IF cv[k].key \in Range(fd.headers) /\ Cardinality(cv[k].val) > 1
         THEN derive_characteristic_factors(
                  cv, k + 1, add_factor(fd, FactorLabel(cv[k].key), cv[k].key))
         ELSE derive_characteristic_factors(cv, k + 1, fd))

derive_factors(technology, headers, cv) ==
    With(derive_characteristic_factors(
             cv, 1, [headers |-> headers, factors |-> <<>>, colnum |-> <<>>]),
         LAMBDA fd :
             IF SmartMatch(technology)
             THEN add_factor(fd, FactorSingleCell, SourceName)
             ELSE fd)

(***************************************************************************)
(* hca2mtab.py lines 300-327: the sample table of one technology.          *)
(***************************************************************************)
\* lines 318-319
RECURSIVE append_factor_values(_, _, _, _)
append_factor_values(row0, factors, colnum, k) ==
    With(row0, LAMBDA row :
    IF k > Len(factors) THEN row
    ELSE append_factor_values(Append(row, row[Get(colnum, factors[k]) + 1]),
                              factors, colnum, k + 1))

\* the row expanded before it is pruned
emit_row_expanding_first(row, factors, colnum, empty, headers, max_num) ==
    With(expand_protocol_columns(TRUE, append_factor_values(row, factors, colnum, 1),
                                 headers, max_num),
         LAMBDA r2 :
             IF r2.err # "none" THEN [row |-> r2.row, err |-> r2.err]
             ELSE remove_empty_columns(r2.row, empty))

\* lines 316-327, for one row: the row as the calls leave it and the
\* exception that kept it from the writer, if any
emit_row(row, factors, colnum, empty, headers, max_num) ==
    With(remove_empty_columns(append_factor_values(row, factors, colnum, 1), empty),
         LAMBDA r2 :
             IF r2.err # "none" THEN r2
             ELSE With(expand_protocol_columns(TRUE, r2.row, headers, max_num),
                       LAMBDA r3 : [row |-> r3.row, err |-> r3.err]))

RECURSIVE emit_rows(_, _, _, _, _, _, _, _)
emit_rows(rows, k, factors, colnum, empty, headers, max_num, out0) ==
    With(out0, LAMBDA out :
    IF k > Len(rows) \/ out.err # "none" THEN out
    ELSE With(emit_row(rows[k], factors, colnum, empty, headers, max_num),
              LAMBDA r :
                  emit_rows(rows, k + 1, factors, colnum, empty, headers, max_num,
                            [rows |-> [out.rows EXCEPT ![k] = r.row],
                             written |-> IF r.err = "none"
                                         THEN Append(out.written, r.row)
                                         ELSE out.written,
                             err |-> r.err])))

\* lines 308-314: the header list is pruned in place; its expanded copy is
\* the header line
write_header(headers, empty, has_max, max_num) ==
    With(remove_empty_columns(headers, empty), LAMBDA h1 :
         IF h1.err # "none"
         THEN [headers |-> h1.row, header_lines |-> <<>>, err |-> h1.err]
         ELSE IF ~has_max
         THEN [headers |-> h1.row, header_lines |-> <<>>, err |-> "KeyError"]
         ELSE With(expand_protocol_columns(FALSE, <<>>, h1.row, max_num),
                   LAMBDA h2 :
                       [headers |-> h1.row,
                        header_lines |-> IF h2.err = "none"
                                         THEN <<h2.headers>> ELSE <<>>,
                        err |-> h2.err]))

\* lines 304-327: the stored header list and rows as the calls leave them,
\* the lines written, and the exception that ended the writing, if any
write_sdrf(headers, rows, empty, has_max, max_num, factors, colnum) ==
    With(write_header(headers, empty, has_max, max_num), LAMBDA h :
         IF h.err # "none"
         THEN [headers |-> h.headers, rows |-> rows,
               header_lines |-> h.header_lines, row_lines |-> <<>>, err |-> h.err]
         ELSE With(emit_rows(rows, 1, factors, colnum, empty, h.headers, max_num,
                             [rows |-> rows, written |-> <<>>, err |-> "none"]),
                   LAMBDA out :
                       [headers |-> h.headers, rows |-> out.rows,
                        header_lines |-> h.header_lines,
                        row_lines |-> out.written, err |-> out.err]))

(***************************************************************************)
(* hca2mtab.py lines 332-460: the experiment table (IDF) of one            *)
(* technology.  A line is the list of its cells; a cell is kept in split   *)
(* form like the cells of the sample table (a file name as its parts       *)
(* between dots, an author list as its authors).  The values come from the *)
(* project document of the bundle that the loop over the bundles saw last. *)
(***************************************************************************)
MageTabVersion == "MAGE-TAB Version"
InvestigationTitle == "Investigation Title"
ExperimentalFactorName == "Experimental Factor Name"
ProtocolName == "Protocol Name"
ProtocolDescription == "Protocol Description"
ProtocolType == "Protocol Type"
PublicationTitle == "Publication Title"
PublicationAuthorList == "Publication Author List"
PubMedID == "PubMed ID"
PublicationDOI == "Publication DOI"
SDRFFile == "SDRF File"

\* config 'idf': (label, path) pairs; a label that is a list stands for a block
idf_config ==
    << Item(<<MageTabVersion>>, "literal", "1.1"),
       Item(<<InvestigationTitle>>, "path", <<"project", "project_core", "project_title">>),
       Item(<<ExperimentalFactorName>>, "path", <<>>),
       Item(<<ProtocolName, ProtocolDescription, ProtocolType>>, "path", <<>>),
       Item(<<PublicationTitle, PublicationAuthorList, PubMedID, PublicationDOI>>,
            "path", <<"project", "publications">>),
       Item(<<SDRFFile>>, "path", <<>>) >>

\* a publication of the project document, as the resolutions made on it
Publication(title, authors, pmid, doi) ==
    [title |-> title, authors |-> authors, pmid |-> pmid, doi |-> doi]

PubFull ==
    Publication(Found(<<"PT">>), <<"A1", "A2">>, Found(<<"123">>), NotFoundValue)
PubUntitled ==
    Publication(NotFoundValue, <<"A1">>, NotFoundValue, Found(<<"doi1">>))

\* the project document: its title and its publications, each found or not
ProjectDocuments ==
    { [title |-> Found(<<"T">>), publications |-> NotFoundValue],
      [title |-> NotFoundValue, publications |-> Found(<<PubFull>>)],
      [title |-> Found(<<"T">>), publications |-> Found(<<PubFull, PubUntitled>>)] }

\* re.search(r'\[(.*)\]', factor), over the factors of the model: group(1) of
\* the match, None without a match
FactorName(factor) ==
    CASE factor = FactorOrganism -> "organism"
      [] factor = FactorStage -> "developmental stage"
      [] factor = FactorSingleCell -> "single cell identifier"
      [] OTHER -> None

\* the order of the protocol names (Python compares strings by code point)
NameRank(name) ==
    CASE name = <<"A">> -> 1 [] name = <<"B">> -> 2 [] name = <<"C">> -> 3
      [] name = <<"D">> -> 4 [] OTHER -> 5

\* sorted(protocols, key=lambda x: x[0]): stable, by insertion
RECURSIVE insert_by_name(_, _)
insert_by_name(sorted, x) ==
    IF sorted = <<>> THEN <<x>>
    ELSE IF NameRank(sorted[Len(sorted)][1]) <= NameRank(x[1])
         THEN Append(sorted, x)
         ELSE Append(insert_by_name(SubSeq(sorted, 1, Len(sorted) - 1), x),
                     sorted[Len(sorted)])

RECURSIVE sorted_by_name(_, _)
sorted_by_name(protocols, acc0) ==
    With(acc0, LAMBDA acc :
    IF protocols = <<>> THEN acc
    ELSE sorted_by_name(Tail(protocols), insert_by_name(acc, Head(protocols))))

\* value if value != notfound else ''
EmptyIfNotFound(cell) == IF cell = Str(NOTFOUND) THEN EMPTY ELSE cell

\* lines 422-432: the protocol block, the protocol types in the order of the
\* technology's map, the protocols of a type by name
RECURSIVE protocol_rows(_, _, _)
protocol_rows(type2protocols, k, rows0) ==
    With(rows0, LAMBDA rows :
    IF k > Len(type2protocols) THEN rows
    ELSE With(sorted_by_name(type2protocols[k].val, <<>>), LAMBDA tuples :
         protocol_rows(
             type2protocols, k + 1,
             [name |-> rows.name \o [i \in DOMAIN tuples |-> tuples[i][1]],
              description |-> rows.description
                  \o [i \in DOMAIN tuples |-> EmptyIfNotFound(tuples[i][2])],
              type |-> rows.type
                  \o [i \in DOMAIN tuples |-> EmptyIfNotFound(tuples[i][3])]])))

protocol_block(type2protocols) ==
    With(protocol_rows(type2protocols, 1,
                       [name |-> <<>>, description |-> <<>>, type |-> <<>>]),
         LAMBDA rows :
             << <<Str(ProtocolName)>> \o rows.name,
                <<Str(ProtocolDescription)>> \o rows.description,
                <<Str(ProtocolType)>> \o rows.type >>)

\* lines 433-452: the publication block; nothing when the project document
\* has no publications
publication_block(publications) ==
    IF ~publications.found THEN <<>>
    ELSE LET pubs == publications.v
         IN  << <<Str(PublicationTitle)>>
                    \o [i \in DOMAIN pubs |-> StrOf(pubs[i].title)],
                <<Str(PublicationAuthorList)>>
                    \o [i \in DOMAIN pubs |-> pubs[i].authors],
                <<Str(PubMedID)>>
                    \o [i \in DOMAIN pubs |-> EmptyIfNotFound(StrOf(pubs[i].pmid))],
                <<Str(PublicationDOI)>>
                    \o [i \in DOMAIN pubs |-> EmptyIfNotFound(StrOf(pubs[i].doi))] >>

\* line 365: the name of the sample table that goes with the experiment table
sdrf_file_name(accession, technology, multi_technology_hca_project) ==
    <<accession, "sdrf", "txt">>
        \o (IF multi_technology_hca_project THEN <<technology>> ELSE <<>>)

\* lines 338-460 for one line item: the lines it writes and what it adds to
\* imported_experiments.  idf holds what the call needs: technology,
\* accession, multi_technology_hca_project, the factors and protocols of the
\* technology, the project document and the number of bundles of the project
idf_line_item(line_item, idf) ==
    LET magetab_label == line_item.label
        none == [lines |-> <<>>, imported |-> <<>>, err |-> "none"]
    IN  IF line_item.kind = "literal"
        THEN [none EXCEPT !.lines = << <<Str(magetab_label[1]), Str(line_item.arg)>> >>]
        ELSE IF magetab_label = <<SDRFFile>>
        THEN [none EXCEPT !.lines =
                 << <<Str(SDRFFile),
                      sdrf_file_name(idf.accession, idf.technology, idf.multi)>> >>]
        ELSE IF magetab_label = <<ExperimentalFactorName>>
        THEN IF \E i \in DOMAIN idf.factors : FactorName(idf.factors[i]) = None
             THEN \* lines 394-397: raised before the line is written
                  [none EXCEPT !.err = "HCA2MagetabTranslationError"]
             ELSE [none EXCEPT !.lines =
                      << <<Str(ExperimentalFactorName)>>
                             \o [i \in DOMAIN idf.factors |->
                                     Str(FactorName(idf.factors[i]))] >>]
        ELSE IF magetab_label[1] = ProtocolName
        THEN [none EXCEPT !.lines = protocol_block(idf.protocols)]
        ELSE IF magetab_label[1] = PublicationTitle
        THEN [none EXCEPT !.lines = publication_block(idf.project.publications)]
        ELSE \* lines 453-457: the label is no special case
             [lines |-> << <<Str(magetab_label[1]), StrOf(idf.project.title)>> >>,
              imported |->
                  IF magetab_label = <<InvestigationTitle>>
                  THEN << [accession |-> idf.accession,
                           technology |-> idf.technology,
                           bundles |-> idf.bundles,
                           title |-> StrOf(idf.project.title)] >>
                  ELSE <<>>,
              err |-> "none"]

RECURSIVE write_idf(_, _, _)
write_idf(k, idf, out0) ==
    With(out0, LAMBDA out :
    IF k > Len(idf_config) \/ out.err # "none" THEN out
    ELSE With(idf_line_item(idf_config[k], idf), LAMBDA r :
              write_idf(k + 1, idf,
                        [lines |-> out.lines \o r.lines,
                         imported |-> out.imported \o r.imported,
                         err |-> r.err])))

(***************************************************************************)
(* convert_hca_json_to_magetab for one experiment, as a state machine.     *)
(***************************************************************************)
\* the function's arguments and results are unused in a run of the program
Idle == [fn |-> "none"]

\* the project document has not been read yet
Unread == [unread |-> TRUE]

\* line 98: the counter of the test-mode cut-off; no statement changes it
bundle_cnt == 0

\* config 'test_max_bundles'
test_max_bundles == 1

ProjectUuids == {"p1", "p2"}

\* the accession of a project (lines 44-47)
Accession(project_uuid) == IF project_uuid = "p1" THEN "E-CAND-1" ELSE "E-CAND-2"

\* no run of the worklist: the experiment or the function is taken on its own
NoRun ==
    /\ mode = "prod"
    /\ new_only = TRUE
    /\ sender = FALSE
    /\ search_results = <<>>
    /\ data_dir = {}
    /\ already_imported_project_uuids = {}
    /\ hca_json_cache = <<>>
    /\ worklist = <<>>
    /\ project_idx = 0
    /\ hca_technology_bound = FALSE
    /\ imported_experiments = <<>>
    /\ emails = <<>>

\* the project in hand; an experiment taken on its own is project p1
project_uuid == IF unit = "run" THEN worklist[project_idx] ELSE "p1"

\* hca_json_for_project_uuid (line 71); on its own an experiment shows its
\* bundles one by one, any bundle can come next and any can be the last
hca_json_for_project_uuid ==
    IF unit = "run" THEN hca_json_cache[project_uuid] ELSE bundles_seen

\* the next key of the loop of line 99
NextBundles ==
    IF unit = "run"
    THEN IF Len(bundles_seen) < Len(hca_json_for_project_uuid)
         THEN {hca_json_for_project_uuid[Len(bundles_seen) + 1]} ELSE {}
    ELSE IF Len(bundles_seen) < MaxBundles THEN Bundles ELSE {}

NoFurtherBundle ==
    unit = "run" => Len(bundles_seen) = Len(hca_json_for_project_uuid)

\* lines 73-98
InitExperiment ==
    /\ unit = "experiment"
    /\ pc = "bundles"
    /\ sdrf_config \in Configs
    /\ project_json = Unread
    /\ idf_written = <<>>
    /\ NoRun
    /\ bundles_seen = <<>>
    /\ technologies_found = {}
    /\ technology2sdrf_column_headers = <<>>
    /\ technology2rows = <<>>
    /\ technology2indexes_of_empty_columns = <<>>
    /\ technology2protocol_type2protocols = <<>>
    /\ technology2protocol_type2max_protocol_num_per_sample = <<>>
    /\ characteristic_values = <<>>
    /\ technology2factors = <<>>
    /\ technology2factor2characteristic_colnum = <<>>
    /\ sdrf_written = <<>>
    /\ error = "none"
    /\ call = Idle
    /\ ret = Idle

Experiment ==
    [technologies_found |-> technologies_found,
     technology2sdrf_column_headers |-> technology2sdrf_column_headers,
     technology2rows |-> technology2rows,
     technology2indexes_of_empty_columns |-> technology2indexes_of_empty_columns,
     technology2protocol_type2protocols |-> technology2protocol_type2protocols,
     technology2protocol_type2max_protocol_num_per_sample |->
         technology2protocol_type2max_protocol_num_per_sample,
     characteristic_values |-> characteristic_values,
     technology |-> None,
     indexes_of_non_empty_sdrf_columns |-> {},
     hca_technology_bound |-> hca_technology_bound,
     error |-> "none"]

\* the error of a bundle caught inside the loop over the worklist, which then
\* writes what the experiment has and moves on
pc_after_bundle_catching(err) ==
    IF err # "none" THEN "factors"
    ELSE IF mode = "test" /\ bundle_cnt >= test_max_bundles THEN "factors"
    ELSE "bundles"

\* lines 139 and 264 raise out of the loops over the bundles and over the
\* worklist; line 270 leaves the loop over the bundles
pc_after_bundle(err) ==
    IF err # "none" THEN "aborted"
    ELSE IF mode = "test" /\ bundle_cnt >= test_max_bundles THEN "factors"
    ELSE "bundles"

\* lines 99-271: the next bundle of the project is translated
ProcessBundle ==
    /\ unit \in {"experiment", "run"}
    /\ pc = "bundles"
    /\ \E bundle \in NextBundles :
          \E ex \in {process_bundle(Experiment, sdrf_config, bundle)} :
              /\ bundles_seen' = Append(bundles_seen, bundle)
              /\ technologies_found' = ex.technologies_found
              /\ technology2sdrf_column_headers' = ex.technology2sdrf_column_headers
              /\ technology2rows' = ex.technology2rows
              /\ technology2indexes_of_empty_columns'
                     = ex.technology2indexes_of_empty_columns
              /\ technology2protocol_type2protocols'
                     = ex.technology2protocol_type2protocols
              /\ technology2protocol_type2max_protocol_num_per_sample'
                     = ex.technology2protocol_type2max_protocol_num_per_sample
              /\ characteristic_values' = ex.characteristic_values
              /\ error' = ex.error
              /\ hca_technology_bound' = ex.hca_technology_bound
              /\ pc' = pc_after_bundle(ex.error)
    /\ UNCHANGED <<unit, sdrf_config, technology2factors,
                   technology2factor2characteristic_colnum, sdrf_written, call, ret,
                   project_json, idf_written, input_vars, imported_experiments,
                   project_idx, emails>>

\* lines 273-295: the project has no further bundle; the factors are derived
DeriveFactors ==
    /\ unit \in {"experiment", "run"}
    /\ pc = "factors" \/ (pc = "bundles" /\ NoFurtherBundle)
    /\ \E fd \in {[t \in technologies_found |->
                        derive_factors(t, technology2sdrf_column_headers[t],
                                       characteristic_values)]} :
           /\ technology2sdrf_column_headers'
                  = [t \in technologies_found |-> fd[t].headers]
           /\ technology2factors' = [t \in technologies_found |-> fd[t].factors]
           /\ technology2factor2characteristic_colnum'
                  = [t \in technologies_found |-> fd[t].colnum]
    /\ pc' = IF technologies_found = {} THEN "idf" ELSE "sdrf"
    /\ UNCHANGED <<unit, sdrf_config, bundles_seen, technologies_found,
                   technology2rows, technology2indexes_of_empty_columns,
                   technology2protocol_type2protocols,
                   technology2protocol_type2max_protocol_num_per_sample,
                   characteristic_values, sdrf_written, error, call, ret,
                   project_json, idf_written, input_vars, run_vars>>

\* line 311 raises KeyError for a technology without a max-count map
write_technology(technology) ==
    LET t2max == technology2protocol_type2max_protocol_num_per_sample
        has_max == technology \in DOMAIN t2max
    IN  write_sdrf(technology2sdrf_column_headers[technology],
                   technology2rows[technology],
                   technology2indexes_of_empty_columns[technology],
                   has_max,
                   IF has_max THEN t2max[technology] ELSE <<>>,
                   technology2factors[technology],
                   technology2factor2characteristic_colnum[technology])

\* lines 300-327: the sample table of the next technology is written
WriteSdrf ==
    /\ unit \in {"experiment", "run"}
    /\ pc = "sdrf"
    /\ \E technology \in technologies_found \ DOMAIN sdrf_written :
          \E out \in {write_technology(technology)} :
              /\ technology2sdrf_column_headers'
                     = Assign(technology2sdrf_column_headers, technology, out.headers)
              /\ technology2rows' = Assign(technology2rows, technology, out.rows)
              /\ sdrf_written' = Assign(sdrf_written, technology,
                                        [header_lines |-> out.header_lines,
                                         row_lines |-> out.row_lines])
              /\ error' = out.err
              /\ pc' = IF out.err # "none" THEN "crashed"
                       ELSE IF DOMAIN sdrf_written \cup {technology} = technologies_found
                       THEN "idf" ELSE "sdrf"
    /\ UNCHANGED <<unit, sdrf_config, bundles_seen, technologies_found,
                   technology2indexes_of_empty_columns,
                   technology2protocol_type2protocols,
                   technology2protocol_type2max_protocol_num_per_sample,
                   characteristic_values, technology2factors,
                   technology2factor2characteristic_colnum, call, ret,
                   project_json, idf_written, input_vars, run_vars>>

\* lines 332-460: the experiment table of the next technology is written
WriteIdf ==
    /\ unit \in {"experiment", "run"}
    /\ pc = "idf"
    /\ \E technology \in technologies_found \ DOMAIN idf_written :
       \E project \in (IF project_json = Unread THEN ProjectDocuments
                       ELSE {project_json}) :
       \E out \in {write_idf(1, [technology |-> technology,
                                  accession |-> Accession(project_uuid),
                                  multi |-> Cardinality(technologies_found) > 1,
                                  factors |-> technology2factors[technology],
                                  protocols |->
                                      technology2protocol_type2protocols[technology],
                                  project |-> project,
                                  bundles |-> Len(hca_json_for_project_uuid)],
                              [lines |-> <<>>, imported |-> <<>>, err |-> "none"])} :
           /\ project_json' = project
           /\ idf_written' = Assign(idf_written, technology, out.lines)
           /\ imported_experiments' = imported_experiments \o out.imported
           /\ error' = out.err
           /\ pc' = IF out.err # "none" THEN "aborted" ELSE pc
    /\ UNCHANGED <<unit, call, ret, sdrf_config, bundles_seen,
                   technologies_found, technology2sdrf_column_headers,
                   technology2rows, technology2indexes_of_empty_columns,
                   technology2protocol_type2protocols,
                   technology2protocol_type2max_protocol_num_per_sample,
                   characteristic_values, technology2factors,
                   technology2factor2characteristic_colnum, sdrf_written,
                   input_vars, hca_technology_bound, project_idx, emails>>

\* lines 461-463: the experiment is done; the loop of line 58 moves on
EndExperiment ==
    /\ unit \in {"experiment", "run"}
    /\ pc = "idf"
    /\ DOMAIN idf_written = technologies_found
    /\ pc' = IF unit = "run" THEN "worklist" ELSE "done"
    /\ project_idx' = IF unit = "run" THEN project_idx + 1 ELSE project_idx
    /\ UNCHANGED <<unit, call, ret, experiment_vars, input_vars,
                   hca_technology_bound, imported_experiments, emails>>

(***************************************************************************)
(* utils.get_magetab_equivalent, get_hca_value_for_path,                   *)
(* hca_versions_in_asc_order, get_migrated_location and get_hca_value.     *)
(*                                                                         *)
(* A JSON value is a node: a dict (its items a function from keys to       *)
(* nodes) or a leaf holding a string.  A dotted property ('a.b') is kept   *)
(* in its split form, like a cell.                                         *)
(***************************************************************************)
Leaf(v) == [dict |-> FALSE, v |-> v, items |-> <<>>]
Dict(items) == [dict |-> TRUE, v |-> "", items |-> items]

\* '.'.join(parts) and s.split('.')
DotJoin(parts) == IF parts = <<>> THEN <<"">> ELSE parts
DotSplit(property) == property

\* config 'cv_translate': label -> {hca value -> magetab value}
cv_translate ==
    << [key |-> "Comment[LIBRARY_LAYOUT]",
        val |-> << [key |-> "True", val |-> "PAIRED"],
                   [key |-> "default", val |-> "SINGLE"] >>],
       [key |-> "Comment[LIBRARY_STRAND]",
        val |-> << [key |-> "first", val |-> "first strand"] >>] >>

get_magetab_equivalent(magetab_label, hca_value) ==
    IF HasKey(cv_translate, magetab_label)
    THEN LET sdrf_col_specific_translations == Get(cv_translate, magetab_label)
         IN  IF HasKey(sdrf_col_specific_translations, hca_value)
             THEN Get(sdrf_col_specific_translations, hca_value)
             ELSE IF HasKey(sdrf_col_specific_translations, "default")
                  THEN Get(sdrf_col_specific_translations, "default")
                  ELSE hca_value
    ELSE hca_value

\* the loop of lines 105-121: a leaf does not end it, a missing key does
RECURSIVE traverse(_, _, _, _)
traverse(hca_schema_path, i, hca_data_structure, leaf) ==
    IF i > Len(hca_schema_path) THEN leaf
    ELSE IF hca_schema_path[i] \in DOMAIN hca_data_structure.items
         THEN IF hca_data_structure.items[hca_schema_path[i]].dict
              THEN traverse(hca_schema_path, i + 1,
                            hca_data_structure.items[hca_schema_path[i]], leaf)
              ELSE traverse(hca_schema_path, i + 1, hca_data_structure,
                            hca_data_structure.items[hca_schema_path[i]].v)
         ELSE NOTFOUND

get_hca_value_for_path(hca_schema_path, hca_data_structure, magetab_label) ==
    get_magetab_equivalent(magetab_label,
                           traverse(hca_schema_path, 1, hca_data_structure, None))

\* the decimal digits of a version component, and int() of the components
\* written one after the other
Pow10Digits(n) == IF n < 10 THEN 10 ELSE 100

RECURSIVE IntOfDigits(_, _)
IntOfDigits(parts, acc) ==
    IF parts = <<>> THEN acc
    ELSE IntOfDigits(Tail(parts), acc * Pow10Digits(Head(parts)) + Head(parts))

\* version.split('.'), over the versions of the model
VersionParts(version) ==
    CASE version = "9.0.0" -> <<9, 0, 0>>
      [] version = "9.0.3" -> <<9, 0, 3>>
      [] version = "9.1.12" -> <<9, 1, 12>>
      [] version = "1.10.0" -> <<1, 10, 0>>
      [] version = "2.0.0" -> <<2, 0, 0>>
      [] version = "10.0.0" -> <<10, 0, 0>>

\* int(version.replace('.', ''))
DotlessInt(version) == IntOfDigits(VersionParts(version), 0)

hca_versions_in_asc_order(version1, version2) ==
    DotlessInt(version1) <= DotlessInt(version2)

SequencingProtocol0 == "sequencing_protocol_0"
LibraryPreparationProtocol0 == "library_preparation_protocol_0"

\* re.sub(r"\_\d+$", "", hca_key), over the keys of the model
SourceSchema(hca_key) ==
    CASE hca_key = SequencingProtocol0 -> "sequencing_protocol"
      [] hca_key = LibraryPreparationProtocol0 -> LibraryPreparationProtocol
      [] OTHER -> hca_key

\* re.search(r"\_\d+$", hca_key): the postfix, '' when there is none
Postfix(hca_key) ==
    IF hca_key \in {SequencingProtocol0, LibraryPreparationProtocol0, "imaging_protocol_0"}
    THEN "_0" ELSE ""

\* schema + postfix, over the keys of the model
WithPostfix(schema, postfix) ==
    IF postfix = "" THEN schema
    ELSE CASE schema = "sequencing_protocol" -> SequencingProtocol0
           [] schema = LibraryPreparationProtocol -> LibraryPreparationProtocol0
           [] OTHER -> schema

\* the first entry that matches decides; << >> stands for None
RECURSIVE get_migrated_location_loop(_, _, _, _)
get_migrated_location_loop(migrations, k, describedBy_version, hca_schema_path) ==
    IF k > Len(migrations) THEN << >>
    ELSE IF /\ SourceSchema(hca_schema_path[1]) = migrations[k].source_schema
            /\ DotJoin(Tail(hca_schema_path)) = migrations[k].property
            /\ hca_versions_in_asc_order(migrations[k].effective_from,
                                         describedBy_version)
         THEN <<WithPostfix(migrations[k].target_schema, Postfix(hca_schema_path[1]))>>
                  \o DotSplit(migrations[k].replaced_by)
         ELSE get_migrated_location_loop(migrations, k + 1, describedBy_version,
                                         hca_schema_path)

get_migrated_location(property_migrations, describedBy_version, hca_schema_path) ==
    get_migrated_location_loop(property_migrations, 1, describedBy_version,
                               hca_schema_path)

\* describedBy.split('/')[-2], over the schema URLs of the model
DescribedByVersion(describedBy) ==
    CASE describedBy = "https://schema.humancellatlas.org/type/protocol/sequencing/9.0.3/sequencing_protocol" -> "9.0.3"
      [] describedBy = "https://schema.humancellatlas.org/type/protocol/sequencing/2.0.0/sequencing_protocol" -> "2.0.0"
      [] describedBy = "https://schema.humancellatlas.org/type/protocol/sequencing/9.1.12/sequencing_protocol" -> "9.1.12"
      [] OTHER -> "9.0.3"

\* get_hca_value looking up the migrated path like a path of its own, with
\* the migrations of the migrated path
RECURSIVE get_hca_value_chaining(_, _, _, _)
get_hca_value_chaining(magetab_label, hca_schema_path, hca_data_structure, property_migrations) ==
    With(get_hca_value_for_path(hca_schema_path, hca_data_structure, magetab_label),
         LAMBDA value :
    IF value = NOTFOUND /\ hca_schema_path[1] \in DOMAIN hca_data_structure.items
    THEN With(get_migrated_location(
                  property_migrations,
                  DescribedByVersion(
                      hca_data_structure.items[hca_schema_path[1]]
                          .items["describedBy"].v),
                  hca_schema_path),
              LAMBDA migrated_schema_path :
                  IF migrated_schema_path # << >> /\ migrated_schema_path # hca_schema_path
                  THEN get_hca_value_chaining(magetab_label, migrated_schema_path,
                                              hca_data_structure, property_migrations)
                  ELSE value)
    ELSE value)

get_hca_value(magetab_label, hca_schema_path, hca_data_structure, property_migrations) ==
    With(get_hca_value_for_path(hca_schema_path, hca_data_structure, magetab_label),
         LAMBDA value :
    IF value = NOTFOUND /\ hca_schema_path[1] \in DOMAIN hca_data_structure.items
    THEN With(get_migrated_location(
                  property_migrations,
                  DescribedByVersion(
                      hca_data_structure.items[hca_schema_path[1]]
                          .items["describedBy"].v),
                  hca_schema_path),
              LAMBDA migrated_schema_path :
                  IF migrated_schema_path # << >>
                  THEN get_hca_value_for_path(migrated_schema_path,
                                              hca_data_structure, magetab_label)
                  ELSE value)
    ELSE value)

(***************************************************************************)
(* The functions of utils.py on their own: one call of                     *)
(* expand_protocol_columns, or of get_hca_value / get_hca_value_for_path,  *)
(* on arguments drawn from bounded sets.                                   *)
(***************************************************************************)
MaxCount == 3
MaxMigrations == 2

\* lines 73-98
NoExperimentYet ==
    /\ project_json = Unread
    /\ idf_written = <<>>
    /\ bundles_seen = <<>>
    /\ technologies_found = {}
    /\ technology2sdrf_column_headers = <<>>
    /\ technology2rows = <<>>
    /\ technology2indexes_of_empty_columns = <<>>
    /\ technology2protocol_type2protocols = <<>>
    /\ technology2protocol_type2max_protocol_num_per_sample = <<>>
    /\ characteristic_values = <<>>
    /\ technology2factors = <<>>
    /\ technology2factor2characteristic_colnum = <<>>
    /\ sdrf_written = <<>>
    /\ error = "none"

\* lines 73-98, with the configuration fixed
NoExperiment == sdrf_config = ConfigAllPlaced /\ NoExperimentYet

\* protocol names of the two protocol types, as a bundle lists them
ProtocolNames(protocol_type) ==
    IF protocol_type = DissociationProtocol
    THEN <<"A", "B", "C", "D">> ELSE <<"E", "F", "G", "H">>

\* the Protocol REF cell of a row whose bundle has k protocols of the type
ProtocolCell(protocol_type, k) == Join(SubSeq(ProtocolNames(protocol_type), 1, k))

ExpandShapes ==
    { c \in [types : {1, 2}, closed : BOOLEAN, has_row : BOOLEAN,
             m1 : 1 .. MaxCount, k1 : 0 .. MaxCount,
             m2 : 1 .. MaxCount, k2 : 0 .. MaxCount] :
        /\ c.k1 <= c.m1 /\ c.k2 <= c.m2
        /\ c.types = 1 => c.m2 = 1 /\ c.k2 = 0
        /\ ~c.has_row => c.k1 = 0 /\ c.k2 = 0 }

ExpandCall(c) ==
    [fn |-> "expand_protocol_columns",
     has_row |-> c.has_row,
     row |-> IF c.has_row
             THEN <<Str("d1"), ProtocolCell(DissociationProtocol, c.k1)>>
                  \o (IF c.types = 2
                      THEN <<ProtocolCell(EnrichmentProtocol, c.k2)>> ELSE <<>>)
                  \o (IF c.closed THEN <<Str("F1")>> ELSE <<>>)
             ELSE <<>>,
     headers |-> <<SourceName, ProtocolREF>>
                 \o (IF c.types = 2 THEN <<ProtocolREF>> ELSE <<>>)
                 \o (IF c.closed THEN <<CommentRun>> ELSE <<>>),
     protocol_type2num_protocols |->
         <<[key |-> DissociationProtocol, val |-> c.m1]>>
         \o (IF c.types = 2
             THEN <<[key |-> EnrichmentProtocol, val |-> c.m2]>> ELSE <<>>)]

ExpandCalls == {ExpandCall(c) : c \in ExpandShapes}

InitExpand ==
    /\ unit = "expand"
    /\ pc = "call"
    /\ call \in ExpandCalls
    /\ ret = Idle
    /\ NoExperiment
    /\ NoRun

\* expand_protocol_columns(row, headers, ...) on a data line
ExpandRow ==
    /\ unit = "expand" /\ pc = "call" /\ call.has_row
    /\ ret' = expand_protocol_columns(TRUE, call.row, call.headers,
                                      call.protocol_type2num_protocols)
    /\ pc' = "done"
    /\ UNCHANGED <<unit, call, experiment_vars, input_vars, run_vars>>

\* expand_protocol_columns(None, headers, ...) on the header line
ExpandHeaders ==
    /\ unit = "expand" /\ pc = "call" /\ ~call.has_row
    /\ ret' = expand_protocol_columns(FALSE, <<>>, call.headers,
                                      call.protocol_type2num_protocols)
    /\ pc' = "done"
    /\ UNCHANGED <<unit, call, experiment_vars, input_vars, run_vars>>

NextExpand == ExpandRow \/ ExpandHeaders

SpecExpand == InitExpand /\ [][NextExpand]_vars

\* the documents of a bundle, keyed by schema type
SequencingUrls ==
    {"https://schema.humancellatlas.org/type/protocol/sequencing/9.0.3/sequencing_protocol",
     "https://schema.humancellatlas.org/type/protocol/sequencing/2.0.0/sequencing_protocol",
     "https://schema.humancellatlas.org/type/protocol/sequencing/9.1.12/sequencing_protocol"}

SequencingDocument(describedBy) ==
    Dict("describedBy" :> Leaf(describedBy)
         @@ "paired_end" :> Leaf("True")
         @@ "protocol_core" :> Dict("protocol_id" :> Leaf("P1")))

LibraryDocument ==
    Dict("describedBy" :> Leaf("https://schema.humancellatlas.org/type/protocol/sequencing/9.0.3/library_preparation_protocol")
         @@ "strand" :> Leaf("first"))

DataStructures ==
    { Dict(SequencingProtocol0 :> SequencingDocument(u)) : u \in SequencingUrls }
    \cup { Dict(SequencingProtocol0 :> SequencingDocument(u)
                @@ LibraryPreparationProtocol0 :> LibraryDocument) :
             u \in SequencingUrls }

SchemaPaths ==
    { <<SequencingProtocol0, "protocol_core", "protocol_id">>,
      <<SequencingProtocol0, "paired_end">>,
      <<SequencingProtocol0, "paired_end", "text">>,
      <<SequencingProtocol0, "paired_end", "protocol_core", "protocol_id">>,
      <<SequencingProtocol0, "protocol_core">>,
      <<SequencingProtocol0, "paired_ends">>,
      <<SequencingProtocol0, "library_construction", "strand">>,
      <<"imaging_protocol_0", "protocol_core", "protocol_id">> }

MagetabLabels ==
    {"Comment[LIBRARY_LAYOUT]", "Comment[LIBRARY_STRAND]", "Comment[HCA file uuid]"}

Migration(source_schema, property, target_schema, replaced_by, effective_from) ==
    [source_schema |-> source_schema, property |-> property,
     target_schema |-> target_schema, replaced_by |-> replaced_by,
     effective_from |-> effective_from]

\* entries of property_migrations['migrations']
MigrationEntries ==
    { Migration("sequencing_protocol", <<"paired_ends">>,
                "sequencing_protocol", <<"paired_end">>, "9.0.0"),
      Migration("sequencing_protocol", <<"paired_ends">>,
                "sequencing_protocol", <<"paired_end">>, "1.10.0"),
      Migration("sequencing_protocol", <<"paired_ends">>,
                "sequencing_protocol", <<"paired">>, "2.0.0"),
      Migration("sequencing_protocol", <<"paired">>,
                "sequencing_protocol", <<"paired_end">>, "2.0.0"),
      Migration("sequencing_protocol", <<"library_construction", "strand">>,
                LibraryPreparationProtocol, <<"strand">>, "10.0.0") }

MigrationTables ==
    UNION { [1 .. n -> MigrationEntries] : n \in 0 .. MaxMigrations }

ResolverCalls ==
    [fn : {"get_hca_value", "get_hca_value_for_path"},
     magetab_label : MagetabLabels,
     hca_schema_path : SchemaPaths,
     hca_data_structure : DataStructures,
     property_migrations : MigrationTables]

InitResolve ==
    /\ unit = "resolve"
    /\ pc = "call"
    /\ call \in {c \in ResolverCalls :
                    c.fn = "get_hca_value_for_path" => c.property_migrations = <<>>}
    /\ ret = Idle
    /\ NoExperiment
    /\ NoRun

GetHcaValue ==
    /\ unit = "resolve" /\ pc = "call" /\ call.fn = "get_hca_value"
    /\ ret' = [value |-> get_hca_value(call.magetab_label, call.hca_schema_path,
                                       call.hca_data_structure,
                                       call.property_migrations)]
    /\ pc' = "done"
    /\ UNCHANGED <<unit, call, experiment_vars, input_vars, run_vars>>

GetHcaValueForPath ==
    /\ unit = "resolve" /\ pc = "call" /\ call.fn = "get_hca_value_for_path"
    /\ ret' = [value |-> get_hca_value_for_path(call.hca_schema_path,
                                                call.hca_data_structure,
                                                call.magetab_label)]
    /\ pc' = "done"
    /\ UNCHANGED <<unit, call, experiment_vars, input_vars, run_vars>>

NextResolve == GetHcaValue \/ GetHcaValueForPath

SpecResolve == InitResolve /\ [][NextResolve]_vars

(***************************************************************************)
(* hca2mtab.py lines 161-171: the scan of the documents of every schema    *)
(* type that matches the regex of a line item ('Characteristics[geographical*)
(* location]', 'Characteristics[genotype]').  A schema type is given as    *)
(* the list of what the path resolves to in each of its documents.  The    *)
(* break of line 170 leaves the loop over the documents of one schema type.*)
(***************************************************************************)
RECURSIVE scan_documents(_, _, _)
scan_documents(documents, k, value) ==
    IF k > Len(documents) THEN value
    ELSE IF StrOf(documents[k]) # Str(NOTFOUND) THEN StrOf(documents[k])
    ELSE scan_documents(documents, k + 1, StrOf(documents[k]))

RECURSIVE scan_schema_types(_, _, _)
scan_schema_types(schema_types, k, value) ==
    IF k > Len(schema_types) THEN value
    ELSE scan_schema_types(schema_types, k + 1,
                           scan_documents(schema_types[k], 1, value))

(***************************************************************************)
(* Calls of the functions that are checked on their own: the technology    *)
(* of a value, the scan of the matching schema types.                      *)
(***************************************************************************)
MaxSchemaTypes == 2
MaxDocuments == 2

HcaTechnologies == {"smart-seq2", "10x v2", "10x v3", "drop-seq"}

Resolutions == {Found(<<"UK">>), Found(<<"US">>), NotFoundValue}

SchemaTypeDocuments == UNION {[1 .. n -> Resolutions] : n \in 1 .. MaxDocuments}

SchemaTypeLists ==
    UNION {[1 .. n -> SchemaTypeDocuments] : n \in 1 .. MaxSchemaTypes}

(***************************************************************************)
(* utils.get_gxa_accession_for_project_uuid (lines 302-332).  An accession *)
(* is kept as its prefix and the digits of its number; the idf file of an  *)
(* accession in gxa_dir is given by the accession and the project uuid     *)
(* that get_project_uuid_from_idf reads in it.                             *)
(***************************************************************************)
MaxCandidate == 11

\* the lists that hold each element of S once
Orderings(S) ==
    {w \in [1 .. Cardinality(S) -> S] : \A i, j \in DOMAIN w : w[i] = w[j] => i = j}

\* the numbers of the E-CAND-N.idf.txt files that gxa_dir may hold
CandidateNumbers == {1, 2} \cup (9 .. MaxCandidate)

\* "%d" % n
RECURSIVE Digits(_)
Digits(n) == IF n < 10 THEN <<n>> ELSE Append(Digits(n \div 10), n % 10)

\* int(digits)
RECURSIVE ParseInt(_)
ParseInt(digits) ==
    IF digits = <<>> THEN 0
    ELSE 10 * ParseInt(SubSeq(digits, 1, Len(digits) - 1)) + digits[Len(digits)]

AccessionOf(prefix, n) == [prefix |-> prefix, digits |-> Digits(n)]

\* the value None of a project in project_uuid2accession
NoAccession == [prefix |-> None, digits |-> <<>>]

\* 'E-CAND-<a>.idf.txt' < 'E-CAND-<b>.idf.txt' as Python compares strings:
\* by the first character that differs, and '.' comes before every digit
RECURSIVE FileNameLess(_, _)
FileNameLess(a, b) ==
    IF a = <<>> THEN b # <<>>
    ELSE IF b = <<>> THEN FALSE
    ELSE IF Head(a) # Head(b) THEN Head(a) < Head(b)
    ELSE FileNameLess(Tail(a), Tail(b))

\* line 323: sorted(candidate_experiments)[-1]
LastOfSorted(candidate_experiments) ==
    CHOOSE f \in candidate_experiments :
        \A g \in candidate_experiments \ {f} : FileNameLess(g.digits, f.digits)

\* lines 312-319: the accession of the idf file that holds the uuid of a
\* project without accession
RECURSIVE accessions_of_idf_files(_, _, _)
accessions_of_idf_files(files, project_uuid2accession, k) ==
    IF k > Len(project_uuid2accession) THEN project_uuid2accession
    ELSE With(project_uuid2accession[k], LAMBDA entry :
         With({f \in files : f.project_uuid = entry.key}, LAMBDA held :
              accessions_of_idf_files(
                  files,
                  IF entry.val = NoAccession /\ held # {}
                  THEN Put(project_uuid2accession, entry.key,
                           [prefix |-> "E-CAND",
                            digits |-> (CHOOSE f \in held : TRUE).digits])
                  ELSE project_uuid2accession,
                  k + 1)))

\* lines 326-329
RECURSIVE mint_accessions(_, _, _)
mint_accessions(project_uuid2accession, k, maximum_candidate_exp_num) ==
    IF k > Len(project_uuid2accession) THEN project_uuid2accession
    ELSE IF project_uuid2accession[k].val = NoAccession
    THEN mint_accessions(
             Put(project_uuid2accession, project_uuid2accession[k].key,
                 AccessionOf("E-CAND", maximum_candidate_exp_num + 1)),
             k + 1, maximum_candidate_exp_num + 1)
    ELSE mint_accessions(project_uuid2accession, k + 1, maximum_candidate_exp_num)

get_gxa_accession_for_project_uuid(files, project_uuid2accession) ==
    mint_accessions(
        accessions_of_idf_files(files, project_uuid2accession, 1), 1,
        IF files # {} THEN ParseInt(LastOfSorted(files).digits) ELSE 0)

\* the idf files of gxa_dir: those of the candidate numbers held, one of
\* them at most of project p1, the others of projects outside the worklist
GxaDirs ==
    UNION {{ {[digits |-> Digits(n),
               project_uuid |-> IF n = owner THEN "p1" ELSE "other"] : n \in S}
             : owner \in S \cup {0}} : S \in SUBSET CandidateNumbers}

\* the worklist of line 44-46: each project with the accession found in
\* its json, or None
ProjectAccessions ==
    UNION {[1 .. Len(w) -> {NoAccession, AccessionOf("E-MTAB", 1)}] \X {w}
               : w \in UNION {Orderings(S) : S \in SUBSET ProjectUuids}}

Worklists ==
    {[k \in DOMAIN pa[2] |-> [key |-> pa[2][k], val |-> pa[1][k]]]
         : pa \in ProjectAccessions}

(***************************************************************************)
(* utils.email_report (lines 458-478).  What the attempts to send meet is  *)
(* given with the call: 'sent', 'refused' (an EnvironmentError of errno    *)
(* ECONNREFUSED) or 'other' (any other EnvironmentError).                  *)
(***************************************************************************)
MAXIMUM_NUMBER_OF_EMAIL_ATTEMPTS == 5

\* lines 3-14, the imports of the module: errno and time are not among them,
\* so that reading either name raises NameError
errno_imported == FALSE
time_imported == FALSE

SendOutcomes == [1 .. MAXIMUM_NUMBER_OF_EMAIL_ATTEMPTS -> {"sent", "refused", "other"}]

\* lines 464-478: the loop from its attempt-th round (counted from 0) on
RECURSIVE email_report(_, _, _)
email_report(outcomes, attempt, slept) ==
    IF attempt >= MAXIMUM_NUMBER_OF_EMAIL_ATTEMPTS
    THEN [result |-> "RuntimeError", attempts |-> attempt, slept |-> slept]
    ELSE IF outcomes[attempt + 1] = "sent"
    THEN [result |-> "sent", attempts |-> attempt + 1, slept |-> slept]
    ELSE IF ~errno_imported
    THEN [result |-> "NameError", attempts |-> attempt + 1, slept |-> slept]
    ELSE IF outcomes[attempt + 1] = "refused"
    THEN IF ~time_imported
         THEN [result |-> "NameError", attempts |-> attempt + 1, slept |-> slept]
         ELSE email_report(outcomes, attempt + 1, slept + 1)
    ELSE [result |-> "EnvironmentError", attempts |-> attempt + 1, slept |-> slept]

UtilCall(fn, hca_technology, schema_types) ==
    [fn |-> fn, hca_technology |-> hca_technology, schema_types |-> schema_types]

UtilCalls ==
    {UtilCall("get_gxa_technology", t, <<>>) : t \in HcaTechnologies}
        \cup {UtilCall("scan_schema_types", "", l) : l \in SchemaTypeLists}
        \cup {[fn |-> "get_gxa_accession_for_project_uuid", gxa_dir |-> d,
               project_uuid2accession |-> w] : d \in GxaDirs, w \in Worklists}
        \cup {[fn |-> "email_report", outcomes |-> o] : o \in SendOutcomes}

InitUtil ==
    /\ unit = "util"
    /\ pc = "call"
    /\ call \in UtilCalls
    /\ ret = Idle
    /\ NoExperiment
    /\ NoRun

GetGxaTechnology ==
    /\ unit = "util" /\ pc = "call" /\ call.fn = "get_gxa_technology"
    /\ ret' = [value |-> get_gxa_technology(call.hca_technology)]
    /\ pc' = "done"
    /\ UNCHANGED <<unit, call, experiment_vars, input_vars, run_vars>>

ScanSchemaTypes ==
    /\ unit = "util" /\ pc = "call" /\ call.fn = "scan_schema_types"
    /\ ret' = [value |-> scan_schema_types(call.schema_types, 1, Str(NOTFOUND))]
    /\ pc' = "done"
    /\ UNCHANGED <<unit, call, experiment_vars, input_vars, run_vars>>

GetGxaAccessionForProjectUuid ==
    /\ unit = "util" /\ pc = "call"
    /\ call.fn = "get_gxa_accession_for_project_uuid"
    /\ ret' = [value |-> get_gxa_accession_for_project_uuid(
                             call.gxa_dir, call.project_uuid2accession)]
    /\ pc' = "done"
    /\ UNCHANGED <<unit, call, experiment_vars, input_vars, run_vars>>

SendEmailReport ==
    /\ unit = "util" /\ pc = "call" /\ call.fn = "email_report"
    /\ ret' = [value |-> email_report(call.outcomes, 0, 0)]
    /\ pc' = "done"
    /\ UNCHANGED <<unit, call, experiment_vars, input_vars, run_vars>>

NextUtil ==
    \/ GetGxaTechnology \/ ScanSchemaTypes \/ GetGxaAccessionForProjectUuid
    \/ SendEmailReport

SpecUtil == InitUtil /\ [][NextUtil]_vars

(***************************************************************************)
(* A run of convert_hca_json_to_magetab over its worklist, called from     *)
(* __main__ (hca2mtab.py lines 27-71, 461-465 and 483-486), with the       *)
(* retrieval of hcadam.get_hca_projects_for_technology.  One search is     *)
(* modelled; a page of its results holds the bundles found, each with the  *)
(* uuid of its project.                                                    *)
(***************************************************************************)
MaxPageBundles == 2

\* a bundle as the search returns it
RunBundle(cell_suspension, library) ==
    [donor_organism |-> << Donor("d1", Found(<<"human">>)) >>,
     cell_suspension |-> cell_suspension,
     sequence_file |-> << Found(<<"F1_R1.fastq.gz">>) >>,
     library |-> library,
     dissociation |-> <<PA>>,
     enrichment |-> << >>]

RunBundles ==
    { RunBundle(1, << Found(<<"10x v2">>) >>),
      [RunBundle(1, << Found(<<"10x v2">>) >>)
           EXCEPT !.donor_organism = << Donor("d2", Found(<<"mouse">>)) >>],
      RunBundle(2, << Found(<<"10x v2">>) >>),
      RunBundle(1, << >>) }

SearchResult == [project_uuid : ProjectUuids, bundle : RunBundles]

\* the pages of a search: a first page and at most one more, of one bundle
SearchResults ==
    LET first == UNION {[1 .. n -> SearchResult] : n \in 1 .. MaxPageBundles}
    IN  {<<page>> : page \in first}
            \cup {<<page, <<r>> >> : page \in first, r \in SearchResult}

\* hcadam.add_bundle_to_json_cache, for a project that is not excluded
RECURSIVE add_page_to_json_cache(_, _, _)
add_page_to_json_cache(page, excluded, cache0) ==
    With(cache0, LAMBDA cache :
    IF page = <<>> THEN cache
    ELSE add_page_to_json_cache(
             Tail(page), excluded,
             IF Head(page).project_uuid \in excluded THEN cache
             ELSE Assign(cache, Head(page).project_uuid,
                         (IF Head(page).project_uuid \in DOMAIN cache
                          THEN cache[Head(page).project_uuid] ELSE <<>>)
                             \o <<Head(page).bundle>>)))

\* hcadam.py lines 103-128: the loop over the pages; every page counts for
\* ten bundles
RECURSIVE get_hca_projects_for_technology(_, _, _, _, _)
get_hca_projects_for_technology(pages, k, excluded, retrieved_cnt, cache0) ==
    With(cache0, LAMBDA cache :
    IF k > Len(pages) THEN cache
    ELSE With(add_page_to_json_cache(pages[k], excluded, cache), LAMBDA cache1 :
              IF mode = "test" /\ retrieved_cnt + 10 >= test_max_bundles
              THEN cache1
              ELSE get_hca_projects_for_technology(pages, k + 1, excluded,
                                                   retrieved_cnt + 10, cache1)))

InitRun ==
    /\ unit = "run"
    /\ pc = "retrieve"
    /\ sdrf_config \in RunConfigs
    /\ NoExperimentYet
    /\ bundles_seen = <<>>
    /\ technologies_found = {}
    /\ call = Idle
    /\ ret = Idle
    /\ mode \in {"test", "prod"}
    /\ new_only \in BOOLEAN
    /\ sender \in BOOLEAN
    /\ search_results \in SearchResults
    /\ data_dir \in SUBSET ProjectUuids
    /\ already_imported_project_uuids
           \in (IF new_only THEN SUBSET data_dir ELSE {{}})
    /\ hca_json_cache = <<>>
    /\ worklist = <<>>
    /\ project_idx = 0
    /\ hca_technology_bound = FALSE
    /\ imported_experiments = <<>>
    /\ emails = <<>>

\* hca2mtab.py lines 36-55: the projects to import and their bundles are
\* retrieved; the worklist holds the projects in the order of the keys of a
\* dict filled from a set
Retrieve ==
    /\ unit = "run"
    /\ pc = "retrieve"
    /\ \E cache \in {get_hca_projects_for_technology(
                        search_results, 1, already_imported_project_uuids, 0,
                        <<>>)} :
           /\ hca_json_cache' = cache
           /\ worklist' \in Orderings(DOMAIN cache)
    /\ project_idx' = 1
    /\ pc' = "worklist"
    /\ UNCHANGED <<unit, call, ret, experiment_vars, mode, new_only, sender,
                   search_results, data_dir, already_imported_project_uuids,
                   hca_technology_bound, imported_experiments, emails>>

\* lines 61-66: the idf file of the accession exists
already_exists == new_only /\ project_uuid \in data_dir

\* lines 58-98: the next project of the worklist is taken up
StartExperiment ==
    /\ unit = "run"
    /\ pc = "worklist"
    /\ project_idx <= Len(worklist)
    /\ ~already_exists
    /\ pc' = "bundles"
    /\ bundles_seen' = <<>>
    /\ technologies_found' = {}
    /\ technology2sdrf_column_headers' = <<>>
    /\ technology2rows' = <<>>
    /\ technology2indexes_of_empty_columns' = <<>>
    /\ technology2protocol_type2protocols' = <<>>
    /\ technology2protocol_type2max_protocol_num_per_sample' = <<>>
    /\ characteristic_values' = <<>>
    /\ technology2factors' = <<>>
    /\ technology2factor2characteristic_colnum' = <<>>
    /\ sdrf_written' = <<>>
    /\ idf_written' = <<>>
    /\ project_json' = Unread
    /\ UNCHANGED <<unit, call, ret, sdrf_config, error, input_vars, run_vars>>

\* lines 61-66: the project is not imported again
SkipExperiment ==
    /\ unit = "run"
    /\ pc = "worklist"
    /\ project_idx <= Len(worklist)
    /\ already_exists
    /\ project_idx' = project_idx + 1
    /\ UNCHANGED <<unit, pc, call, ret, experiment_vars, input_vars,
                   hca_technology_bound, imported_experiments, emails>>

\* line 464 without the test of imported_experiments
report_due_for_any_run == sender

\* line 464 (a sender comes with its recipients, lines 478-480)
report_due == imported_experiments # <<>> /\ sender

\* lines 464-465: the worklist is done; the report of the imported experiments
EmailReport ==
    /\ unit = "run"
    /\ pc = "worklist"
    /\ project_idx > Len(worklist)
    /\ emails' = IF report_due
                 THEN Append(emails, [kind |-> "report",
                                      experiments |-> imported_experiments])
                 ELSE emails
    /\ pc' = "exit"
    /\ UNCHANGED <<unit, call, ret, experiment_vars, input_vars,
                   hca_technology_bound, imported_experiments, project_idx>>

\* lines 483-486: __main__ catches the translation error and reports it
EmailError ==
    /\ unit = "run"
    /\ pc = "aborted"
    /\ error = "HCA2MagetabTranslationError"
    /\ emails' = Append(emails, [kind |-> "error", experiments |-> <<>>])
    /\ pc' = "exit"
    /\ UNCHANGED <<unit, call, ret, experiment_vars, input_vars,
                   hca_technology_bound, imported_experiments, project_idx>>

NextRun ==
    \/ Retrieve \/ StartExperiment \/ SkipExperiment \/ ProcessBundle
    \/ DeriveFactors \/ WriteSdrf \/ WriteIdf \/ EndExperiment
    \/ EmailReport \/ EmailError

SpecRun == InitRun /\ [][NextRun]_vars

Init == InitExperiment

Next == ProcessBundle \/ DeriveFactors \/ WriteSdrf \/ WriteIdf \/ EndExperiment

Spec == Init /\ [][Next]_vars

(***************************************************************************)
(* Properties of one experiment (Spec).                                    *)
(***************************************************************************)
\* the bundles whose rows were stored: all but one that ended the run
Processed ==
    IF pc = "aborted" THEN SubSeq(bundles_seen, 1, Len(bundles_seen) - 1)
    ELSE bundles_seen

\* the technology that the library preparation document of a bundle names
TechnologyOf(bundle) ==
    IF bundle.library = <<>> \/ ~bundle.library[1].found THEN None
    ELSE get_gxa_technology(Lower(bundle.library[1].v[1]))

BundlesOf(technology) ==
    {i \in DOMAIN Processed : TechnologyOf(Processed[i]) = technology}

\* the distinct (name, description, type) triples of one type in a bundle
DistinctTriples(bundle, protocol_type) ==
    {ProtocolTuple(d) : d \in {x \in Range(ProtocolDocs(bundle, protocol_type)) :
                                  x.name.found}}

Max(S) == CHOOSE x \in S : \A y \in S : y <= x

\* the elements of s at the positions K, in their order in s
Select(s, K) == LET idx == Sorted(K) IN [i \in 1 .. Len(idx) |-> s[idx[i]]]

Unwritten == technologies_found \ DOMAIN sdrf_written

\* the max-count map lists its protocol types in the order of the configuration
MapInConfigOrder(technology) ==
    LET t2max == technology2protocol_type2max_protocol_num_per_sample
    IN  technology \in DOMAIN t2max =>
            Keys(t2max[technology])
                = Select(config_protocol_types,
                         {i \in DOMAIN config_protocol_types :
                             HasKey(t2max[technology], config_protocol_types[i])})

\* C1: for every technology written with the configuration whose labels all
\* take their place and with the max-count map in the order of the Protocol REF
\* columns, every emitted data row has exactly as many cells as the emitted
\* (expanded) header, whatever the number of values (0 .. max) in the row's
\* Protocol REF cells.
C1_EmittedRowsAlignWithHeader ==
    \A t \in DOMAIN sdrf_written :
        (sdrf_config = ConfigAllPlaced /\ MapInConfigOrder(t)) =>
            \A i \in DOMAIN sdrf_written[t].row_lines :
                Len(sdrf_written[t].row_lines[i])
                    = Len(sdrf_written[t].header_lines[1])

\* C3: pruning a technology's header and rows leaves exactly the columns that
\* hold a non-empty value in at least one of its rows (and the derived factor
\* columns, which pruning does not consider), in their original order.
Retained(t) ==
    LET n == Len(technology2sdrf_column_headers[t]) - Len(technology2factors[t])
    IN  {i \in DOMAIN technology2sdrf_column_headers[t] :
            \/ i > n
            \/ \E r \in DOMAIN technology2rows[t] : technology2rows[t][r][i] # EMPTY}

PrunedAsSpecified(t, line) ==
    LET pruned == remove_empty_columns(line, technology2indexes_of_empty_columns[t])
    IN  pruned.err = "none" /\ pruned.row = Select(line, Retained(t))

C3_PruningKeepsNonEmptyColumns ==
    pc = "sdrf" =>
        \A t \in Unwritten :
            /\ PrunedAsSpecified(t, technology2sdrf_column_headers[t])
            /\ \A r \in DOMAIN technology2rows[t] :
                   PrunedAsSpecified(
                       t, append_factor_values(
                              technology2rows[t][r], technology2factors[t],
                              technology2factor2characteristic_colnum[t], 1))

BuilderAfter(k, bundle) ==
    build_row(SubSeq(sdrf_config, 1, k), 1, bundle, bundle.donor_organism[1],
              cell_suspension_of_donor(bundle, 1), bundle.sequence_file[1], protocol_type2protocols_in_bundle(bundle),
              [headers |-> <<>>, row |-> <<>>, idx |-> {}, cv |-> <<>>,
               technology |-> None, hca_technology_bound |-> FALSE])

Varying ==
    {c \in Range(Keys(characteristic_values)) :
        Cardinality(Get(characteristic_values, c)) > 1}

Occurrences(s, x) == Cardinality({i \in DOMAIN s : s[i] = x})

C5_FactorColumnsFollowCharacteristics ==
    \A t \in DOMAIN sdrf_written :
        sdrf_written[t].header_lines # <<>> =>
            LET hl == sdrf_written[t].header_lines[1]
            IN  \A c \in {CharOrganism, CharStage} :
                    IF c \in Varying
                    THEN /\ Occurrences(hl, FactorLabel(c)) = 1
                         /\ \A i \in DOMAIN sdrf_written[t].row_lines :
                                LET row == sdrf_written[t].row_lines[i]
                                IN  /\ Len(row) = Len(hl)
                                    /\ row[IndexOf(hl, FactorLabel(c)) + 1]
                                           = IF c \in Range(hl)
                                             THEN row[IndexOf(hl, c) + 1]
                                             ELSE EMPTY
                    ELSE Occurrences(hl, FactorLabel(c)) = 0

\* C6: for every technology and protocol type, the tracked maximum is the
\* largest number of distinct triples of the type in one bundle of the
\* technology (no entry when that number is 0), whatever the size of the
\* union of the triples over the bundles.
C6_MaxIsLargestCountInOneBundle ==
    \A t \in technologies_found : \A p \in Range(config_protocol_types) :
        LET t2max == technology2protocol_type2max_protocol_num_per_sample
            n == Max({Cardinality(DistinctTriples(Processed[i], p)) :
                          i \in BundlesOf(t)})
        IN  IF n = 0
            THEN t \in DOMAIN t2max => ~HasKey(t2max[t], p)
            ELSE t \in DOMAIN t2max /\ HasKey(t2max[t], p) /\ Get(t2max[t], p) = n

\* all bundles are done and a technology holds more triples of a type than any
\* one of its bundles does
C6_Witness ==
    /\ pc = "sdrf"
    /\ Len(bundles_seen) = MaxBundles
    /\ \E t \in technologies_found :
           \E p \in Range(config_protocol_types) :
               /\ HasKey(technology2protocol_type2protocols[t], p)
               /\ Len(Get(technology2protocol_type2protocols[t], p))
                      > Get(technology2protocol_type2max_protocol_num_per_sample[t], p)

\* C7: a triple is stored once per technology and protocol type however often
\* it is merged (by two bundles, or by each row of one bundle), and merging a
\* processed bundle again changes neither the stored sets nor the maxima.
NoDuplicates(s) == \A i, j \in DOMAIN s : s[i] = s[j] => i = j

C7_MergeIsIdempotent ==
    /\ \A t \in technologies_found :
           \A k \in DOMAIN technology2protocol_type2protocols[t] :
               LET e == technology2protocol_type2protocols[t][k]
               IN  /\ NoDuplicates(e.val)
                   /\ Range(e.val) = UNION {DistinctTriples(Processed[i], e.key) :
                                               i \in BundlesOf(t)}
    /\ \A i \in DOMAIN Processed :
           LET again == merge_protocols(
                            Experiment, TechnologyOf(Processed[i]),
                            protocol_type2protocols_in_bundle(Processed[i]), 1)
           IN  /\ again.technology2protocol_type2protocols
                      = technology2protocol_type2protocols
               /\ again.technology2protocol_type2max_protocol_num_per_sample
                      = technology2protocol_type2max_protocol_num_per_sample

\* two bundles of one technology share a triple and one of them has several rows
C7_Witness ==
    /\ pc = "bundles"
    /\ Len(bundles_seen) = 2
    /\ TechnologyOf(bundles_seen[1]) = TechnologyOf(bundles_seen[2])
    /\ DistinctTriples(bundles_seen[1], DissociationProtocol)
           \cap DistinctTriples(bundles_seen[2], DissociationProtocol) # {}
    /\ Len(bundles_seen[2].donor_organism) * Len(bundles_seen[2].sequence_file) > 1
    /\ Len(technology2rows[TechnologyOf(bundles_seen[1])]) > 2

\* C8: a bundle that passes the cardinality check and yields a technology
\* appends donors x files rows, donor by donor and file by file, to the rows of
\* its technology; the rows stored before and the rows of the other
\* technologies stay as they were.
RowsBefore(t) == IF t \in DOMAIN technology2rows THEN technology2rows[t] ELSE <<>>

C8_BundleStep ==
    (bundles_seen' # bundles_seen /\ error' = "none") =>
        LET bundle == bundles_seen'[Len(bundles_seen')]
            t == TechnologyOf(bundle)
            donors == Len(bundle.donor_organism)
            files == Len(bundle.sequence_file)
            old == RowsBefore(t)
        IN  /\ t \in DOMAIN technology2rows'
            /\ Len(technology2rows'[t]) = Len(old) + donors * files
            /\ SubSeq(technology2rows'[t], 1, Len(old)) = old
            /\ \A i \in 1 .. donors : \A j \in 1 .. files :
                   LET row == technology2rows'[t][Len(old) + (i - 1) * files + j]
                   IN  /\ row[1] = StrOf(bundle.donor_organism[i].id)
                       /\ row[Len(row)]
                              = Str(RunOfFile(StrOf(bundle.sequence_file[j])[1]))
            /\ DOMAIN technology2rows' = DOMAIN technology2rows \cup {t}
            /\ \A u \in DOMAIN technology2rows \ {t} :
                   technology2rows'[u] = technology2rows[u]

C8_RowsPerBundle == [][C8_BundleStep]_vars

\* the second bundle, of another technology than the first, has two donors and
\* two files
C8_Witness ==
    /\ pc = "bundles" /\ error = "none"
    /\ Len(bundles_seen) = 2
    /\ Cardinality(technologies_found) = 2
    /\ Len(bundles_seen[2].donor_organism) = 2
    /\ Len(bundles_seen[2].sequence_file) = 2
    /\ Len(technology2rows[TechnologyOf(bundles_seen[2])]) = 4

(***************************************************************************)
(* Properties of expand_protocol_columns (SpecExpand).                     *)
(***************************************************************************)
\* the values of a Protocol REF cell: none for the empty cell
CellValues(cell) == IF cell = EMPTY THEN <<>> ELSE Split(cell)

Padding(n) == [i \in 1 .. n |-> EMPTY]

\* m columns for a cell of k <= m values: the values, then m - k empty strings
RECURSIVE ExpandedAsSpecified(_, _, _, _, _)
ExpandedAsSpecified(row, headers, max_counts, i, type_idx) ==
    IF i > Len(row) THEN <<>>
    ELSE IF headers[i] = ProtocolREF
         THEN LET values == CellValues(row[i])
                  m == max_counts[type_idx].val
              IN  [v \in DOMAIN values |-> Str(values[v])]
                      \o Padding(m - Len(values))
                      \o ExpandedAsSpecified(row, headers, max_counts, i + 1,
                                             type_idx + 1)
         ELSE <<row[i]>>
                  \o ExpandedAsSpecified(row, headers, max_counts, i + 1, type_idx)

\* C2: expanding a row whose Protocol REF cell holds k values of a type with
\* max count m (0 <= k <= m) puts the k values, in order, and m - k empty
\* strings in m columns at that position and leaves the other cells unchanged,
\* in their order.
C2_RowExpandedAsSpecified ==
    (unit = "expand" /\ pc = "done" /\ call.has_row) =>
        /\ ret.err = "none"
        /\ ret.row = ExpandedAsSpecified(call.row, call.headers,
                                         call.protocol_type2num_protocols, 1, 1)

(***************************************************************************)
(* Properties of get_hca_value_for_path and get_hca_value (SpecResolve).   *)
(***************************************************************************)
\* the first leaf on the path: descend through dicts, stop at a leaf
RECURSIVE FirstLeaf(_, _, _)
FirstLeaf(hca_schema_path, i, node) ==
    IF i > Len(hca_schema_path) THEN None
    ELSE IF hca_schema_path[i] \in DOMAIN node.items
         THEN IF node.items[hca_schema_path[i]].dict
              THEN FirstLeaf(hca_schema_path, i + 1, node.items[hca_schema_path[i]])
              ELSE node.items[hca_schema_path[i]].v
         ELSE NOTFOUND

\* C9: resolution of a path returns the first leaf reached, whatever path
\* elements remain, so a path that is fully present yields its leaf
\* (translated by the vocabulary of the label).
C9_FirstLeafIsReturned ==
    (unit = "resolve" /\ pc = "done" /\ call.fn = "get_hca_value_for_path"
        /\ FirstLeaf(call.hca_schema_path, 1, call.hca_data_structure) # None) =>
        ret.value = get_magetab_equivalent(
                        call.magetab_label,
                        FirstLeaf(call.hca_schema_path, 1, call.hca_data_structure))

\* version1 <= version2, component by component
RECURSIVE VersionLeq(_, _)
VersionLeq(parts1, parts2) ==
    IF parts1 = <<>> \/ parts2 = <<>> THEN parts1 = <<>>
    ELSE IF Head(parts1) # Head(parts2) THEN Head(parts1) < Head(parts2)
         ELSE VersionLeq(Tail(parts1), Tail(parts2))

\* the entry covers the path for the version that the document declares
Eligible(entry, hca_schema_path, hca_data_structure) ==
    /\ entry.source_schema = SourceSchema(hca_schema_path[1])
    /\ entry.property = DotJoin(Tail(hca_schema_path))
    /\ VersionLeq(VersionParts(entry.effective_from),
                  VersionParts(DescribedByVersion(
                      hca_data_structure.items[hca_schema_path[1]]
                          .items["describedBy"].v)))

MigratedPath(entry, hca_schema_path) ==
    <<WithPostfix(entry.target_schema, Postfix(hca_schema_path[1]))>>
        \o DotSplit(entry.replaced_by)

\* C10: when the direct traversal of a path fails, its first segment exists
\* and the migration table holds an entry for the path that is in effect for
\* the declared version, the result is the value at the path rebuilt from such
\* an entry (target schema with the key's postfix, then the replacement path).
C10_MigratedValueIsReturned ==
    (unit = "resolve" /\ pc = "done" /\ call.fn = "get_hca_value"
        /\ traverse(call.hca_schema_path, 1, call.hca_data_structure, None) = NOTFOUND
        /\ call.hca_schema_path[1] \in DOMAIN call.hca_data_structure.items
        /\ \E k \in DOMAIN call.property_migrations :
               Eligible(call.property_migrations[k], call.hca_schema_path,
                        call.hca_data_structure)) =>
        \E k \in DOMAIN call.property_migrations :
            /\ Eligible(call.property_migrations[k], call.hca_schema_path,
                        call.hca_data_structure)
            /\ ret.value = get_hca_value_for_path(
                               MigratedPath(call.property_migrations[k],
                                            call.hca_schema_path),
                               call.hca_data_structure, call.magetab_label)

\* C11: a path absent from the record (a key of the path is missing before
\* a leaf is reached) with no entry of the migration table in effect for it,
\* or whose first segment is itself absent, resolves to NOTFOUND.
C11_AbsentPathYieldsNotFound ==
    (unit = "resolve" /\ pc = "done" /\ call.fn = "get_hca_value"
        /\ FirstLeaf(call.hca_schema_path, 1, call.hca_data_structure) = NOTFOUND
        /\ (call.hca_schema_path[1] \in DOMAIN call.hca_data_structure.items =>
               \A k \in DOMAIN call.property_migrations :
                   ~Eligible(call.property_migrations[k], call.hca_schema_path,
                             call.hca_data_structure))) =>
        ret.value = NOTFOUND

\* C12: for every output label, a traversal that ends in NOTFOUND is still
\* NOTFOUND after the vocabulary translation of the label.
C12_TranslationKeepsNotFound ==
    (unit = "resolve" /\ pc = "done" /\ call.fn = "get_hca_value_for_path"
        /\ traverse(call.hca_schema_path, 1, call.hca_data_structure, None)
               = NOTFOUND) =>
        ret.value = NOTFOUND

(***************************************************************************)
(* C13.  The NOTFOUND sentinel appears in no cell of the output: in no row *)
(* of a written sample table (SDRF) and in no line of a written experiment *)
(* table (IDF), whatever fields the records lack.                          *)
(***************************************************************************)
C13_NotFoundNeverWritten ==
    /\ \A t \in DOMAIN sdrf_written :
           \A i \in DOMAIN sdrf_written[t].row_lines :
               \A j \in DOMAIN sdrf_written[t].row_lines[i] :
                   sdrf_written[t].row_lines[i][j] # Str(NOTFOUND)
    /\ \A t \in DOMAIN idf_written :
           \A i \in DOMAIN idf_written[t] :
               \A j \in DOMAIN idf_written[t][i] :
                   idf_written[t][i][j] # Str(NOTFOUND)

(***************************************************************************)
(* C14.  After any sequence of cell appends in an experiment, no value set *)
(* of the characteristic tracker holds NOTFOUND or the CURATE marker, and  *)
(* values are recorded only under labels that denote a characteristic.     *)
(***************************************************************************)
TrackerIsClean(cv) ==
    \A k \in DOMAIN cv :
        /\ cv[k].key \in {CharOrganism, CharStage}
        /\ Str(NOTFOUND) \notin cv[k].val
        /\ Str(CURATE) \notin cv[k].val

C14_TrackerHoldsNoSentinel ==
    /\ TrackerIsClean(characteristic_values)
    /\ (pc \in {"bundles", "aborted"} /\ bundles_seen # <<>>) =>
           \A k \in 0 .. Len(sdrf_config) :
               TrackerIsClean(BuilderAfter(k, bundles_seen[Len(bundles_seen)]).cv)

\* two bundles were processed, one whose organism is missing and one whose
\* organism is given; every row has the CURATE marker under a characteristic
C14_Witness ==
    /\ pc = "bundles"
    /\ Len(bundles_seen) = 2
    /\ ~bundles_seen[1].donor_organism[1].organism.found
    /\ bundles_seen[2].donor_organism[1].organism.found
    /\ \E t \in technologies_found : \E r \in DOMAIN technology2rows[t] :
           \E c \in DOMAIN technology2rows[t][r] :
               /\ technology2rows[t][r][c] = Str(CURATE)
               /\ IsCharacteristic(technology2sdrf_column_headers[t][c])
    /\ characteristic_values # <<>>

(***************************************************************************)
(* C15.  Processing a bundle raises the translation error exactly when the *)
(* number of its cell-suspension records is neither 1 nor the number of    *)
(* its donor records; then no row of the bundle has been added to any      *)
(* accumulator; otherwise the i-th donor is paired with the i-th cell      *)
(* suspension, or with the single one.                                     *)
(***************************************************************************)
LastBundle == bundles_seen'[Len(bundles_seen')]

Suspensions(bundle) == Len(cell_suspension_json_list(bundle))

WellPaired(bundle) ==
    Suspensions(bundle) \in {1, Len(bundle.donor_organism)}

\* nothing of the bundle reached the accumulators of the experiment
NothingAdded ==
    UNCHANGED <<technologies_found, technology2sdrf_column_headers,
                technology2rows, technology2indexes_of_empty_columns,
                technology2protocol_type2protocols,
                technology2protocol_type2max_protocol_num_per_sample,
                characteristic_values>>

\* in the rows of the bundle, the row of donor i holds, under the
\* cell-suspension column, the i-th cell suspension or the single one
PairedByPosition(bundle) ==
    LET t == TechnologyOf(bundle)
        files == Len(bundle.sequence_file)
        old == RowsBefore(t)
        headers == technology2sdrf_column_headers'[t]
    IN  CommentBiomaterial \in Range(headers) =>
            \A i \in 1 .. Len(bundle.donor_organism) : \A j \in 1 .. files :
                LET row == technology2rows'[t][Len(old) + (i - 1) * files + j]
                    c == IF Suspensions(bundle) > 1 THEN i ELSE 1
                IN  /\ row[1] = StrOf(bundle.donor_organism[i].id)
                    /\ row[IndexOf(headers, CommentBiomaterial) + 1]
                           = StrOf(cell_suspension_json_list(bundle)[c].id)

\* C15 as stated
C15_ErrorExactlyOnMismatchStep ==
    bundles_seen' # bundles_seen =>
        /\ error' = "HCA2MagetabTranslationError" <=> ~WellPaired(LastBundle)
        /\ ~WellPaired(LastBundle) => NothingAdded
        /\ (WellPaired(LastBundle) /\ error' = "none") => PairedByPosition(LastBundle)

C15_ErrorExactlyOnMismatch == [][C15_ErrorExactlyOnMismatchStep]_vars

\* C15, amended: a bundle whose cell suspensions are neither one nor as many
\* as its donors raises the translation error and nothing of it is added; a
\* bundle with one or as many raises the translation error only if no
\* technology can be derived for it, and when it raises nothing the i-th donor
\* is paired with the i-th cell suspension, or with the single one.
C15_MismatchStep ==
    bundles_seen' # bundles_seen =>
        /\ ~WellPaired(LastBundle) =>
               (error' = "HCA2MagetabTranslationError" /\ NothingAdded)
        /\ (WellPaired(LastBundle) /\ error' = "HCA2MagetabTranslationError") =>
               TechnologyOf(LastBundle) = None
        /\ (WellPaired(LastBundle) /\ TechnologyOf(LastBundle) # None) =>
               (error' = "none" /\ PairedByPosition(LastBundle))

C15_MismatchRaises == [][C15_MismatchStep]_vars

\* a bundle of two donors with two cell suspensions was stored, with the
\* cell-suspension column, and the next bundle, of one donor with two cell
\* suspensions, was refused
C15_Witness ==
    /\ pc = "aborted" /\ error = "HCA2MagetabTranslationError"
    /\ sdrf_config = ConfigCellSuspension
    /\ Len(bundles_seen) = 2
    /\ Len(bundles_seen[1].donor_organism) = 2
    /\ Suspensions(bundles_seen[1]) = 2
    /\ Len(technology2rows[TechnologyOf(bundles_seen[1])]) >= 2
    /\ Len(bundles_seen[2].donor_organism) = 1
    /\ Suspensions(bundles_seen[2]) = 2

(***************************************************************************)
(* C16.  If no technology can be derived for a bundle whose row was built  *)
(* (the technology-indicating field is absent, or its value matches no     *)
(* synonym), the experiment aborts with HCA2MagetabTranslationError and    *)
(* the row is not added to any accumulator.                                *)
(***************************************************************************)
C16_NoTechnologyStep ==
    (bundles_seen' # bundles_seen /\ WellPaired(LastBundle)
         /\ TechnologyOf(LastBundle) = None) =>
        /\ error' = "HCA2MagetabTranslationError"
        /\ pc' = "aborted"
        /\ technology2rows' = technology2rows

C16_NoTechnologyAborts == [][C16_NoTechnologyStep]_vars

(***************************************************************************)
(* C17.  When the translation error is raised while one experiment of a    *)
(* run over several is processed, the whole run is aborted: no experiment  *)
(* later in the worklist is processed or written, and the error            *)
(* notification is sent instead of the import report.                      *)
(***************************************************************************)
ErrorEmail == [kind |-> "error", experiments |-> <<>>]

C17_Aborted ==
    error = "HCA2MagetabTranslationError" =>
        /\ pc \in {"aborted", "exit"}
        /\ emails = IF pc = "exit" THEN <<ErrorEmail>> ELSE <<>>

C17_AbortStep ==
    error = "HCA2MagetabTranslationError" =>
        /\ UNCHANGED <<experiment_vars, project_idx, imported_experiments>>
        /\ pc' = "exit"
        /\ emails' = <<ErrorEmail>>

C17_ErrorAbortsRun == []C17_Aborted /\ [][C17_AbortStep]_vars

\* the first of two experiments raised the translation error and the run
\* ended with the error notification, the second experiment untouched
C17_Witness ==
    /\ unit = "run" /\ pc = "exit"
    /\ error = "HCA2MagetabTranslationError"
    /\ Len(worklist) = 2 /\ project_idx = 1
    /\ emails = <<ErrorEmail>>

(***************************************************************************)
(* C19.  The import notification is sent at most once per run, only after  *)
(* the last experiment of the worklist has been processed, and only if at  *)
(* least one experiment was newly imported during the run; an experiment   *)
(* skipped because its output exists (new_only) never counts as imported.  *)
(***************************************************************************)
Reports == {k \in DOMAIN emails : emails[k].kind = "report"}

\* the experiments of the worklist taken up so far and not skipped
TakenUp ==
    {worklist[k] : k \in {n \in DOMAIN worklist :
                              /\ n <= project_idx
                              /\ ~(new_only /\ worklist[n] \in data_dir)}}

C19_ReportOnceAtEnd ==
    /\ Cardinality(Reports) <= 1
    /\ \A k \in Reports :
           /\ pc = "exit"
           /\ project_idx > Len(worklist)
           /\ emails[k].experiments = imported_experiments
           /\ imported_experiments # <<>>
    /\ \A k \in DOMAIN imported_experiments :
           \E p \in TakenUp : imported_experiments[k].accession = Accession(p)

\* a run over two experiments, the first skipped and the second imported,
\* ended with the report of the second alone
C19_Witness ==
    /\ unit = "run" /\ pc = "exit"
    /\ Len(worklist) = 2
    /\ new_only /\ worklist[1] \in data_dir /\ worklist[2] \notin data_dir
    /\ Len(emails) = 1 /\ emails[1].kind = "report"
    /\ \A k \in DOMAIN emails[1].experiments :
           emails[1].experiments[k].accession = Accession(worklist[2])

(***************************************************************************)
(* C20.  In 'test' mode at most test_max_bundles bundles are retrieved and *)
(* processed per project; in 'prod' mode every bundle of the project is    *)
(* processed.                                                              *)
(***************************************************************************)
\* the bundles of a project among the results of the search
BundlesFound(p) ==
    Cardinality({<<k, n>> \in UNION {{k} \X DOMAIN search_results[k] :
                                         k \in DOMAIN search_results} :
                     search_results[k][n].project_uuid = p})

C20_Retrieved ==
    (unit = "run" /\ pc # "retrieve") =>
        \A p \in DOMAIN hca_json_cache :
            IF mode = "test"
            THEN Len(hca_json_cache[p]) <= test_max_bundles
            ELSE Len(hca_json_cache[p]) = BundlesFound(p)

C20_Processed ==
    (unit = "run" /\ pc \in {"bundles", "factors", "sdrf", "idf"}) =>
        IF mode = "test"
        THEN Len(bundles_seen) <= test_max_bundles
        ELSE pc # "bundles" => Len(bundles_seen) = Len(hca_json_for_project_uuid)

C20_TestModeLimitsBundles == C20_Retrieved /\ C20_Processed

(***************************************************************************)
(* C18.  End to end: for two bundles of a single technology, each with one *)
(* donor, one cell suspension, one sequence file and one protocol (here of *)
(* the name "A"), and the same characteristic values in both, the sample   *)
(* table has a header row and two data rows, each with exactly one         *)
(* Protocol REF cell, equal to "A", no derived factor column, and the      *)
(* protocol block of the experiment table lists "A" exactly once.          *)
(***************************************************************************)
C18_Case ==
    /\ unit = "experiment"
    /\ Len(bundles_seen) = 2
    /\ \A k \in 1 .. 2 :
           /\ Len(bundles_seen[k].donor_organism) = 1
           /\ bundles_seen[k].cell_suspension = 1
           /\ Len(bundles_seen[k].sequence_file) = 1
           /\ bundles_seen[k].dissociation = <<PA>>
           /\ bundles_seen[k].enrichment = <<>>
           /\ TechnologyOf(bundles_seen[k]) # None
    /\ bundles_seen[1].library = bundles_seen[2].library
    /\ bundles_seen[1].donor_organism[1].organism
           = bundles_seen[2].donor_organism[1].organism

\* the cells of a row under the header of the given label
CellsUnder(header, row, label) ==
    {c \in DOMAIN header : header[c] = label /\ c \in DOMAIN row}

C18_Tables ==
    LET t == TechnologyOf(bundles_seen[1])
        header == sdrf_written[t].header_lines[1]
        rows == sdrf_written[t].row_lines
    IN  /\ DOMAIN sdrf_written = {t} /\ DOMAIN idf_written = {t}
        /\ Len(sdrf_written[t].header_lines) = 1
        /\ Len(rows) = 2
        /\ \A r \in 1 .. 2 :
               /\ Len(rows[r]) = Len(header)
               /\ Cardinality(CellsUnder(header, rows[r], ProtocolREF)) = 1
               /\ \A c \in CellsUnder(header, rows[r], ProtocolREF) :
                      rows[r][c] = Str("A")
        /\ \A c \in DOMAIN header :
               header[c] \notin {FactorSingleCell, FactorLabel(CharOrganism),
                                 FactorLabel(CharStage)}
        /\ \E i \in DOMAIN idf_written[t] :
               idf_written[t][i] = <<Str(ProtocolName), Str("A")>>

C18_EndToEnd ==
    C18_Case =>
        /\ pc \notin {"aborted", "crashed"}
        /\ pc = "done" => C18_Tables

(***************************************************************************)
(* C21.  At expansion time, for every technology, the Protocol REF headers *)
(* that remain after pruning are as many as the protocol types of the      *)
(* technology's max-count map, and the i-th of them from the left is the   *)
(* column built for the i-th protocol type in the key order of the map,    *)
(* whatever the order in which the bundles first show each protocol type.  *)
(***************************************************************************)
\* the positions of the Protocol REF headers, from the left
ProtocolRefPositions(headers) ==
    Sorted({i \in DOMAIN headers : headers[i] = ProtocolREF})

\* the protocol types whose Protocol REF column is kept by the pruning, from
\* the left; the j-th Protocol REF column of a row is built from the j-th
\* protocol type of the configuration
KeptProtocolTypes(t) ==
    LET positions == ProtocolRefPositions(technology2sdrf_column_headers[t])
        kept == {j \in DOMAIN positions :
                    (positions[j] - 1) \notin technology2indexes_of_empty_columns[t]}
    IN  Select(config_protocol_types, kept)

MaxCountKeys(t) ==
    IF t \in DOMAIN technology2protocol_type2max_protocol_num_per_sample
    THEN Keys(technology2protocol_type2max_protocol_num_per_sample[t])
    ELSE <<>>

C21_ProtocolRefHeadersFollowMap ==
    pc = "sdrf" => \A t \in Unwritten : KeptProtocolTypes(t) = MaxCountKeys(t)

(***************************************************************************)
(* C22.  For each technology, the always-empty set as it stands after the  *)
(* last bundle is the complement, against the full length of the           *)
(* technology's header, of the positions seen non-empty in any of its rows;*)
(* it holds no position outside the header, also when positional rules     *)
(* were skipped and the header is shorter than the configuration.          *)
(***************************************************************************)
\* the positions (from 0) of the header as the rows were built
BuiltPositions(t) ==
    0 .. (Len(technology2sdrf_column_headers[t]) - Len(technology2factors[t]) - 1)

C22_AlwaysEmptyIsComplement ==
    pc = "sdrf" =>
        \A t \in Unwritten :
            /\ technology2indexes_of_empty_columns[t] \subseteq BuiltPositions(t)
            /\ technology2indexes_of_empty_columns[t]
                   = {i \in BuiltPositions(t) : (i + 1) \notin Retained(t)}

(***************************************************************************)
(* C23.  For each technology the passes run in the order factor            *)
(* derivation, pruning of the empty columns, expansion of the Protocol REF *)
(* columns; pruning is applied to unexpanded headers and rows only, and    *)
(* the header and each row are pruned once and expanded once.              *)
(***************************************************************************)
JustWritten == CHOOSE t \in DOMAIN sdrf_written' : t \notin DOMAIN sdrf_written

\* the last n elements of s
Suffix(s, n) == SubSeq(s, Len(s) - n + 1, Len(s))

C23_PassesStep ==
    (sdrf_written' # sdrf_written /\ error' = "none") =>
        LET t == JustWritten
            headers == technology2sdrf_column_headers[t]
            empty == technology2indexes_of_empty_columns[t]
            max_num == technology2protocol_type2max_protocol_num_per_sample[t]
            factors == technology2factors[t]
            pruned == remove_empty_columns(headers, empty).row
        IN  /\ Suffix(headers, Len(factors)) = factors
            /\ technology2sdrf_column_headers'[t] = pruned
            /\ sdrf_written'[t].header_lines
                   = << expand_protocol_columns(FALSE, <<>>, pruned, max_num).headers >>
            /\ Len(sdrf_written'[t].row_lines) = Len(technology2rows[t])
            /\ \A r \in DOMAIN technology2rows[t] :
                   LET r1 == append_factor_values(
                                 technology2rows[t][r], factors,
                                 technology2factor2characteristic_colnum[t], 1)
                       r2 == remove_empty_columns(r1, empty).row
                       r3 == expand_protocol_columns(TRUE, r2, pruned, max_num).row
                   IN  /\ Len(technology2rows[t][r]) + Len(factors) = Len(headers)
                       /\ sdrf_written'[t].row_lines[r] = r3
                       /\ technology2rows'[t][r] = r3

\* nothing is written before the factors of every technology are derived
C23_DerivedBeforeWritten ==
    /\ pc = "bundles" => (technology2factors = <<>> /\ sdrf_written = <<>>)
    /\ sdrf_written # <<>> => DOMAIN technology2factors = technologies_found

C23_PassesInOrder == []C23_DerivedBeforeWritten /\ [][C23_PassesStep]_vars

\* a table was written that has a derived factor, a pruned column and a
\* protocol type of more than one column, for two rows or more
C23_Witness ==
    /\ error = "none"
    /\ \E t \in DOMAIN sdrf_written :
           /\ technology2factors[t] # <<>>
           /\ technology2indexes_of_empty_columns[t] # {}
           /\ \E k \in DOMAIN technology2protocol_type2max_protocol_num_per_sample[t] :
                  technology2protocol_type2max_protocol_num_per_sample[t][k].val > 1
           /\ Len(sdrf_written[t].row_lines) >= 2

(***************************************************************************)
(* C24.  Header expansion inserts, for each Protocol REF placeholder from  *)
(* the left, max count - 1 further Protocol REF headers next to it, so the *)
(* expanded header has max-count contiguous Protocol REF columns per       *)
(* protocol type; every other header keeps its label and relative order,   *)
(* and a header whose protocol types all have max count 1 is unchanged.    *)
(***************************************************************************)
RECURSIVE HeadersExpandedAsSpecified(_, _, _, _)
HeadersExpandedAsSpecified(headers, max_counts, i, type_idx) ==
    IF i > Len(headers) THEN <<>>
    ELSE IF headers[i] = ProtocolREF
         THEN [n \in 1 .. max_counts[type_idx].val |-> ProtocolREF]
                  \o HeadersExpandedAsSpecified(headers, max_counts, i + 1,
                                                type_idx + 1)
         ELSE <<headers[i]>>
                  \o HeadersExpandedAsSpecified(headers, max_counts, i + 1, type_idx)

C24_HeaderExpandedAsSpecified ==
    (unit = "expand" /\ pc = "done" /\ ~call.has_row) =>
        /\ ret.err = "none"
        /\ ret.headers = HeadersExpandedAsSpecified(
                             call.headers, call.protocol_type2num_protocols, 1, 1)
        /\ (\A k \in DOMAIN call.protocol_type2num_protocols :
                call.protocol_type2num_protocols[k].val = 1) =>
               ret.headers = call.headers

\* a header of two placeholders, followed by another column, was expanded for
\* the max counts 3 and 2
C24_Witness ==
    /\ unit = "expand" /\ pc = "done" /\ ~call.has_row
    /\ call.headers = <<SourceName, ProtocolREF, ProtocolREF, CommentRun>>
    /\ call.protocol_type2num_protocols[1].val = 3
    /\ call.protocol_type2num_protocols[2].val = 2
    /\ Len(ret.headers) = 7

(***************************************************************************)
(* C25.  The technology derived for a value is the key of the first entry, *)
(* in the order of the technology-synonym table, that has a synonym        *)
(* matching the value; a later entry that matches too never overrides it.  *)
(***************************************************************************)
Matching(hca_technology) ==
    {k \in DOMAIN technology_mtab2hca :
        \E j \in DOMAIN technology_mtab2hca[k].val :
            RegexMatch(technology_mtab2hca[k].val[j], hca_technology)}

FirstMatchingKey(hca_technology) ==
    IF Matching(hca_technology) = {} THEN None
    ELSE technology_mtab2hca[Sorted(Matching(hca_technology))[1]].key

C25_FirstMatchingSynonymWins ==
    (unit = "util" /\ pc = "done" /\ call.fn = "get_gxa_technology") =>
        ret.value = FirstMatchingKey(call.hca_technology)

(***************************************************************************)
(* C26.  A multi-schema scan tries the matching schema types in order and  *)
(* yields the first value resolved that is not NOTFOUND; the result is     *)
(* NOTFOUND only if no document of any matching schema type resolves the   *)
(* path, and a later schema type never replaces a value already found.     *)
(***************************************************************************)
\* the resolutions of all documents, schema type by schema type
RECURSIVE Flatten(_)
Flatten(schema_types) ==
    IF schema_types = <<>> THEN <<>>
    ELSE Head(schema_types) \o Flatten(Tail(schema_types))

FirstFound(resolutions) ==
    IF \A k \in DOMAIN resolutions : ~resolutions[k].found THEN Str(NOTFOUND)
    ELSE StrOf(resolutions[CHOOSE k \in DOMAIN resolutions :
                               /\ resolutions[k].found
                               /\ \A j \in 1 .. (k - 1) : ~resolutions[j].found])

C26_ScanYieldsFirstFound ==
    (unit = "util" /\ pc = "done" /\ call.fn = "scan_schema_types") =>
        ret.value = FirstFound(Flatten(call.schema_types))

(***************************************************************************)
(* C27.  One resolution attempts at most one migration hop: if the value   *)
(* is missing at the migrated location too, the result is NOTFOUND, and    *)
(* the migration table is not consulted again for the migrated path.       *)
(***************************************************************************)
\* the location the path of the call is migrated to, << >> if none
MigratedLocationOfCall ==
    IF call.hca_schema_path[1] \in DOMAIN call.hca_data_structure.items
    THEN get_migrated_location(
             call.property_migrations,
             DescribedByVersion(call.hca_data_structure.items[call.hca_schema_path[1]]
                                    .items["describedBy"].v),
             call.hca_schema_path)
    ELSE << >>

\* the call looked up the migrated location and found nothing there
MissingAfterHop ==
    /\ unit = "resolve" /\ pc = "done" /\ call.fn = "get_hca_value"
    /\ get_hca_value_for_path(call.hca_schema_path, call.hca_data_structure,
                              call.magetab_label) = NOTFOUND
    /\ MigratedLocationOfCall # << >>
    /\ FirstLeaf(MigratedLocationOfCall, 1, call.hca_data_structure) = NOTFOUND

C27_OneMigrationHop == MissingAfterHop => ret.value = NOTFOUND

\* the table also has an entry for the migrated path, in effect for the
\* declared version, whose target holds a value
C27_Witness ==
    /\ MissingAfterHop
    /\ \E k \in DOMAIN call.property_migrations :
           /\ Eligible(call.property_migrations[k], MigratedLocationOfCall,
                       call.hca_data_structure)
           /\ FirstLeaf(MigratedPath(call.property_migrations[k],
                                     MigratedLocationOfCall),
                        1, call.hca_data_structure) \notin {NOTFOUND, None}
    /\ ret.value = NOTFOUND

(***************************************************************************)
(* C28.  Whenever the processing of an experiment aborts with the          *)
(* translation error (cardinality mismatch, no technology, or a factor     *)
(* without a name while the experiment table is written), no sample table  *)
(* and no experiment table of that experiment has been written, in whole   *)
(* or in part.                                                             *)
(***************************************************************************)
C28_NoOutputOnTranslationError ==
    error = "HCA2MagetabTranslationError" =>
        sdrf_written = <<>> /\ idf_written = <<>>

(***************************************************************************)
(* C29.  Every E-CAND-N accession minted for a project without accession   *)
(* has a number greater than that of every E-CAND idf file of the          *)
(* directory and differs from every other accession minted in the call,    *)
(* whatever the candidate numbers held (9 and 10 among them); a project    *)
(* that has an accession keeps it.                                         *)
(***************************************************************************)
AccessionCallDone ==
    unit = "util" /\ pc = "done" /\ call.fn = "get_gxa_accession_for_project_uuid"

\* the projects of the call that get a new accession: without accession in
\* their json and without idf file in the directory
Minted ==
    {k \in DOMAIN call.project_uuid2accession :
         /\ call.project_uuid2accession[k].val = NoAccession
         /\ \A f \in call.gxa_dir :
                f.project_uuid # call.project_uuid2accession[k].key}

C29_MintedAccessionsAreFresh ==
    AccessionCallDone =>
        /\ \A k \in Minted :
               /\ ret.value[k].val.prefix = "E-CAND"
               /\ \A f \in call.gxa_dir :
                      ParseInt(ret.value[k].val.digits) > ParseInt(f.digits)
               /\ \A j \in Minted \ {k} : ret.value[j].val # ret.value[k].val
        /\ \A k \in DOMAIN call.project_uuid2accession :
               call.project_uuid2accession[k].val # NoAccession
                   => ret.value[k] = call.project_uuid2accession[k]

(***************************************************************************)
(* C30.  Sending the email report makes at most                            *)
(* MAXIMUM_NUMBER_OF_EMAIL_ATTEMPTS attempts: a refused connection is      *)
(* followed by a sleep and another attempt, the first successful send      *)
(* ends the loop, any other failure is raised again at once, and five      *)
(* refused connections in a row end in a RuntimeError.                     *)
(***************************************************************************)
\* the first attempt that does not meet a refused connection, one past the
\* maximum if every attempt does
RECURSIVE FirstNotRefused(_, _)
FirstNotRefused(outcomes, k) ==
    IF k > MAXIMUM_NUMBER_OF_EMAIL_ATTEMPTS \/ outcomes[k] # "refused" THEN k
    ELSE FirstNotRefused(outcomes, k + 1)

C30_EmailRetriesAsSpecified ==
    (unit = "util" /\ pc = "done" /\ call.fn = "email_report") =>
        LET k == FirstNotRefused(call.outcomes, 1)
        IN  /\ ret.value.attempts <= MAXIMUM_NUMBER_OF_EMAIL_ATTEMPTS
            /\ ret.value =
                   IF k > MAXIMUM_NUMBER_OF_EMAIL_ATTEMPTS
                   THEN [result |-> "RuntimeError",
                         attempts |-> MAXIMUM_NUMBER_OF_EMAIL_ATTEMPTS,
                         slept |-> MAXIMUM_NUMBER_OF_EMAIL_ATTEMPTS]
                   ELSE [result |-> IF call.outcomes[k] = "sent" THEN "sent"
                                    ELSE "EnvironmentError",
                         attempts |-> k, slept |-> k - 1]

==============================================================================
